---- MODULE Spec2Model ----
(***************************************************************************)
(* State-machine model of the relational store of consolidated-app.py and  *)
(* of the data operations (CompanyModel, BranchModel, EmployeeModel,       *)
(* RoleModel, TaskModel) that act on it.                                   *)
(*                                                                         *)
(* Every table is a function from the SERIAL primary key of its rows to a  *)
(* record of the columns the operations read or write.  SQL NULL is the    *)
(* number 0, which no SERIAL key ever takes (and which Python treats as    *)
(* false exactly as it treats None).  Each data operation runs in one      *)
(* transaction of the store, so it is one atomic action; a statement that  *)
(* the schema's REFERENCES or UNIQUE constraints reject raises, the        *)
(* transaction is rolled back and the store is left as it was.             *)
(***************************************************************************)
EXTENDS Integers, FiniteSets, Sequences, TLC

VARIABLES companies, branches, employee_roles, employees, tasks,
          task_assignments, messages, role_seq, task_seq, sessions, last

vars == <<companies, branches, employee_roles, employees, tasks,
          task_assignments, messages, role_seq, task_seq, sessions, last>>

NULL == 0

(* ---------------------------- bounds ----------------------------------- *)
MaxBranches == 2
MaxEmployees == 2
MaxRoles == 4
MaxTasks == 2
MaxNow == 2
MaxSessions == 2
MaxMessages == 3
MaxLevel == 5
MinYear == 2023
MaxYear == 2024
MaxCompanies == 2
MaxRoleSeq == 8

(* datetime.datetime.now() as read by one call: an input of the call *)
Times == 1..MaxNow

(* ------------------------ RolePermissions ------------------------------ *)
MANAGER == 1
ASST_MANAGER == 2
GENERAL_EMPLOYEE == 3

(* ------------------------- the call record ----------------------------- *)
(* last: the most recent call: its name, its first argument (or the key    *)
(* of the row it created), its second argument, its boolean result (for    *)
(* the status operations: the is_active argument; for reopen_task:         *)
(* whether the task row it reset was complete; for the other operations    *)
(* that return nothing: TRUE when the transaction committed, FALSE when    *)
(* the store rejected it), and for delete_role the number of employees     *)
(* rows its UPDATE statement matched.                                      *)
CallRows(op, id, arg, flag, rows) ==
    [op |-> op, id |-> id, arg |-> arg, flag |-> flag, rows |-> rows]

Call(op, id, arg, flag) == CallRows(op, id, arg, flag, 0)

(* ----------------------------- queries --------------------------------- *)
RowsOf(t) == DOMAIN t

(* mutant of ActiveBranchEmployees: the is_active = TRUE condition dropped *)
ActiveBranchEmployees_anyStatus(branch_id) ==
    {e \in RowsOf(employees) : employees[e].branch_id = branch_id}

(* SELECT id FROM employees WHERE branch_id = :branch_id AND is_active *)
ActiveBranchEmployees(branch_id) ==
    {e \in RowsOf(employees) :
        employees[e].branch_id = branch_id /\ employees[e].is_active}

(* SELECT r.role_level FROM employees e JOIN employee_roles r ... :       *)
(* NULL when the join has no row                                           *)
EmployeeRoleLevel(employee_id) ==
    IF /\ employee_id \in RowsOf(employees)
       /\ employees[employee_id].role_id \in RowsOf(employee_roles)
    THEN employee_roles[employees[employee_id].role_id].role_level
    ELSE NULL

HasRoleRow(employee_id) ==
    /\ employee_id \in RowsOf(employees)
    /\ employees[employee_id].role_id \in RowsOf(employee_roles)

(* mutant of IsManager: < 2 written for <= 2 *)
IsManager_strict(employee_id) ==
    HasRoleRow(employee_id) /\ EmployeeRoleLevel(employee_id) < 2

(* employee_role and employee_role[0] <= 2 *)
IsManager(employee_id) ==
    HasRoleRow(employee_id) /\ EmployeeRoleLevel(employee_id) <= 2

(* the task_assignments keys of one task *)
AssignmentsOf(ta, task_id) == {k \in DOMAIN ta : k[1] = task_id}

(* mutant of AllComplete: counts the completed rows instead of finding no  *)
(* incomplete one                                                          *)
AllComplete_some(ta, task_id) ==
    Cardinality({k \in AssignmentsOf(ta, task_id) : ta[k].is_completed}) > 0

\* SELECT COUNT = 0 FROM task_assignments
\* WHERE task_id = :task_id AND is_completed = FALSE
AllComplete(ta, task_id) ==
    Cardinality({k \in AssignmentsOf(ta, task_id) : ~ta[k].is_completed}) = 0

(* ------------------------------ rows ----------------------------------- *)
NewTask(company_id, branch_id, employee_id) ==
    [company_id |-> company_id, branch_id |-> branch_id,
     employee_id |-> employee_id, is_completed |-> FALSE,
     completed_by_id |-> NULL, completed_at |-> NULL]

NewAssignment == [is_completed |-> FALSE, completed_at |-> NULL]

(* t with the row k added or replaced *)
Put(t, k, row) ==
    [x \in DOMAIN t \cup {k} |-> IF x = k THEN row ELSE t[x]]

(* t without the rows whose key is in ks *)
Drop(t, ks) == [x \in DOMAIN t \ ks |-> t[x]]

(* a table without rows *)
Empty == [x \in {} |-> NULL]

(* the rows of f, and the rows of g whose key f does not have *)
Merge(f, g) ==
    [x \in DOMAIN f \cup DOMAIN g |-> IF x \in DOMAIN f THEN f[x] ELSE g[x]]

(* ---------------------------- EmployeeModel ---------------------------- *)
(* INSERT INTO employees (..., is_active) VALUES (..., TRUE); branch_id    *)
(* and role_id REFERENCE existing rows                                     *)
add_employee(branch_id, role_id) ==
    /\ Cardinality(RowsOf(employees)) < MaxEmployees
    /\ branch_id \in RowsOf(branches)
    /\ role_id \in RowsOf(employee_roles)
    /\ LET id == Cardinality(RowsOf(employees)) + 1 IN
        /\ employees' = Put(employees, id,
              [branch_id |-> branch_id, role_id |-> role_id, is_active |-> TRUE])
        /\ last' = Call("add_employee", id, NULL, TRUE)
    /\ UNCHANGED <<companies, branches, employee_roles, tasks,
                   task_assignments, role_seq, task_seq>>
    /\ UNCHANGED <<messages, sessions>>

(* UPDATE employees SET is_active = :is_active WHERE id = :id *)
update_employee_status(employee_id, is_active) ==
    /\ employee_id \in RowsOf(employees)
    /\ employees' = [employees EXCEPT ![employee_id].is_active = is_active]
    /\ last' = Call("update_employee_status", employee_id, NULL, is_active)
    /\ UNCHANGED <<companies, branches, employee_roles, tasks,
                   task_assignments, role_seq, task_seq>>
    /\ UNCHANGED <<messages, sessions>>

(* ------------------------------ TaskModel ------------------------------ *)
(* the rows create_task inserts into task_assignments for the new task *)
FanOut(task_id, branch_id, employee_id) ==
    IF branch_id # NULL /\ employee_id = NULL
    THEN {<<task_id, e>> : e \in ActiveBranchEmployees(branch_id)}
    ELSE {}

create_task(company_id, branch_id, employee_id) ==
    /\ task_seq < MaxTasks
    /\ company_id \in RowsOf(companies)
    /\ branch_id \in RowsOf(branches) \cup {NULL}
    /\ employee_id \in RowsOf(employees) \cup {NULL}
    /\ LET task_id == task_seq + 1
           new == FanOut(task_id, branch_id, employee_id)
       IN
        /\ task_seq' = task_id
        /\ tasks' = Put(tasks, task_id, NewTask(company_id, branch_id, employee_id))
        /\ task_assignments' =
              [k \in DOMAIN task_assignments \cup new |->
                  IF k \in new THEN NewAssignment ELSE task_assignments[k]]
        /\ last' = Call("create_task", task_id, NULL, TRUE)
    /\ UNCHANGED <<companies, branches, employee_roles, employees, role_seq>>
    /\ UNCHANGED <<messages, sessions>>

(* UPDATE tasks SET is_completed = TRUE, completed_at = :now,              *)
(* completed_by_id = :employee_id WHERE id = :task_id                      *)
CompleteTask(t, task_id, employee_id, now) ==
    [t EXCEPT ![task_id].is_completed = TRUE,
              ![task_id].completed_at = now,
              ![task_id].completed_by_id = employee_id]

(* mutant of CompleteAssignment: AND employee_id = :employee_id dropped *)
CompleteAssignment_wholeTask(ta, task_id, employee_id, now) ==
    [k \in DOMAIN ta |->
        IF k[1] = task_id
        THEN [is_completed |-> TRUE, completed_at |-> now]
        ELSE ta[k]]

(* UPDATE task_assignments SET is_completed = TRUE, completed_at = :now    *)
(* WHERE task_id = :task_id AND employee_id = :employee_id                 *)
CompleteAssignment(ta, task_id, employee_id, now) ==
    [k \in DOMAIN ta |->
        IF k = <<task_id, employee_id>>
        THEN [is_completed |-> TRUE, completed_at |-> now]
        ELSE ta[k]]

(* what one call of mark_task_completed leaves in tasks and                *)
(* task_assignments, and the boolean it returns                            *)
Outcome(t, ta, ret) == [tasks |-> t, task_assignments |-> ta, ret |-> ret]

(* mutant of MarkBranchTask: the all-complete branch closes the task but  *)
(* falls through to the final return False                                 *)
MarkBranchTask_fallThrough(task_id, employee_id, now) ==
    LET ta == CompleteAssignment(task_assignments, task_id, employee_id, now) IN
    IF IsManager(employee_id)
    THEN Outcome(CompleteTask(tasks, task_id, employee_id, now), ta, TRUE)
    ELSE IF AllComplete(ta, task_id)
    THEN Outcome(CompleteTask(tasks, task_id, employee_id, now), ta, FALSE)
    ELSE Outcome(tasks, ta, FALSE)

MarkBranchTask(task_id, employee_id, now) ==
    LET ta == CompleteAssignment(task_assignments, task_id, employee_id, now) IN
    IF IsManager(employee_id)
    THEN Outcome(CompleteTask(tasks, task_id, employee_id, now), ta, TRUE)
    ELSE IF AllComplete(ta, task_id)
    THEN Outcome(CompleteTask(tasks, task_id, employee_id, now), ta, TRUE)
    ELSE Outcome(tasks, ta, FALSE)

(* mutant of MarkDirectTask: the task[1] == employee_id test dropped *)
MarkDirectTask_anyone(task_id, employee_id, now) ==
    Outcome(CompleteTask(tasks, task_id, employee_id, now), task_assignments, TRUE)

MarkDirectTask(task_id, employee_id, now) ==
    IF tasks[task_id].employee_id = employee_id
    THEN Outcome(CompleteTask(tasks, task_id, employee_id, now),
                 task_assignments, TRUE)
    ELSE Outcome(tasks, task_assignments, FALSE)

(* mutant of MarkOpenTask: a branch task is left alone when the caller     *)
(* holds no assignment of it                                               *)
MarkOpenTask_assigneesOnly(task_id, employee_id, now) ==
    IF tasks[task_id].branch_id # NULL
    THEN IF <<task_id, employee_id>> \in DOMAIN task_assignments
         THEN MarkBranchTask(task_id, employee_id, now)
         ELSE Outcome(tasks, task_assignments, FALSE)
    ELSE MarkDirectTask(task_id, employee_id, now)

MarkOpenTask(task_id, employee_id, now) ==
    IF tasks[task_id].branch_id # NULL
    THEN MarkBranchTask(task_id, employee_id, now)
    ELSE MarkDirectTask(task_id, employee_id, now)

(* mutant of MarkTaskCompleted: the early return on task[2] dropped *)
MarkTaskCompleted_noEarlyReturn(task_id, employee_id, now) ==
    IF task_id \notin RowsOf(tasks)
    THEN Outcome(tasks, task_assignments, FALSE)
    ELSE MarkOpenTask(task_id, employee_id, now)

MarkTaskCompleted(task_id, employee_id, now) ==
    IF task_id \notin RowsOf(tasks)
    THEN Outcome(tasks, task_assignments, FALSE)
    ELSE IF tasks[task_id].is_completed
    THEN Outcome(tasks, task_assignments, TRUE)
    ELSE MarkOpenTask(task_id, employee_id, now)

(* the caller is a logged-in employee: employee_id is a row of employees *)
mark_task_completed(task_id, employee_id, now) ==
    /\ employee_id \in RowsOf(employees)
    /\ LET r == MarkTaskCompleted(task_id, employee_id, now) IN
        /\ tasks' = r.tasks
        /\ task_assignments' = r.task_assignments
        /\ last' = Call("mark_task_completed", task_id, employee_id, r.ret)
    /\ UNCHANGED <<companies, branches, employee_roles, employees,
                   role_seq, task_seq>>
    /\ UNCHANGED <<messages, sessions>>

(* mutant of ReopenTaskRow: only is_completed is reset *)
ReopenTaskRow_flagOnly(t, task_id) ==
    [k \in DOMAIN t |->
        IF k = task_id THEN [t[k] EXCEPT !.is_completed = FALSE] ELSE t[k]]

(* UPDATE tasks SET is_completed = FALSE, completed_at = NULL,             *)
(* completed_by_id = NULL WHERE id = :task_id                              *)
ReopenTaskRow(t, task_id) ==
    [k \in DOMAIN t |->
        IF k = task_id
        THEN [t[k] EXCEPT !.is_completed = FALSE, !.completed_at = NULL,
                          !.completed_by_id = NULL]
        ELSE t[k]]

(* mutant of ReopenAssignments: the WHERE task_id = :task_id dropped *)
ReopenAssignments_everyTask(ta, task_id) ==
    [k \in DOMAIN ta |-> NewAssignment]

(* UPDATE task_assignments SET is_completed = FALSE, completed_at = NULL   *)
(* WHERE task_id = :task_id                                                *)
ReopenAssignments(ta, task_id) ==
    [k \in DOMAIN ta |-> IF k[1] = task_id THEN NewAssignment ELSE ta[k]]

(* mutant of reopen_task: the UPDATE task_assignments statement left out *)
reopen_task_taskOnly(task_id) ==
    /\ tasks' = ReopenTaskRow(tasks, task_id)
    /\ last' = Call("reopen_task", task_id, NULL,
                    task_id \in RowsOf(tasks) /\ tasks[task_id].is_completed)
    /\ UNCHANGED <<companies, branches, employee_roles, employees,
                   task_assignments, role_seq, task_seq>>
    /\ UNCHANGED <<messages, sessions>>

reopen_task(task_id) ==
    /\ tasks' = ReopenTaskRow(tasks, task_id)
    /\ task_assignments' = ReopenAssignments(task_assignments, task_id)
    /\ last' = Call("reopen_task", task_id, NULL,
                    task_id \in RowsOf(tasks) /\ tasks[task_id].is_completed)
    /\ UNCHANGED <<companies, branches, employee_roles, employees,
                   role_seq, task_seq>>
    /\ UNCHANGED <<messages, sessions>>

(* mutant of delete_task: the DELETE FROM task_assignments left out *)
delete_task_taskOnly(task_id) ==
    /\ tasks' = Drop(tasks, {task_id})
    /\ last' = Call("delete_task", task_id, NULL, TRUE)
    /\ UNCHANGED <<companies, branches, employee_roles, employees,
                   task_assignments, role_seq, task_seq>>
    /\ UNCHANGED <<messages, sessions>>

(* DELETE FROM task_assignments WHERE task_id = :task_id;                  *)
(* DELETE FROM tasks WHERE id = :task_id                                   *)
delete_task(task_id) ==
    /\ task_assignments' =
          Drop(task_assignments, AssignmentsOf(task_assignments, task_id))
    /\ tasks' = Drop(tasks, {task_id})
    /\ last' = Call("delete_task", task_id, NULL, TRUE)
    /\ UNCHANGED <<companies, branches, employee_roles, employees,
                   role_seq, task_seq>>
    /\ UNCHANGED <<messages, sessions>>

(* INSERT INTO tasks (employee_id, ...) VALUES (:employee_id, ...);        *)
(* employee_id REFERENCES employees(id)                                    *)
add_task(employee_id) ==
    /\ task_seq < MaxTasks
    /\ employee_id \in RowsOf(employees)
    /\ task_seq' = task_seq + 1
    /\ tasks' = Put(tasks, task_seq + 1, NewTask(NULL, NULL, employee_id))
    /\ last' = Call("add_task", task_seq + 1, employee_id, TRUE)
    /\ UNCHANGED <<companies, branches, employee_roles, employees,
                   task_assignments, role_seq>>
    /\ UNCHANGED <<messages, sessions>>

(* a value a query returns that may be NULL: the empty tuple is NULL       *)
(* (None in Python), the tuple of one number is that number                *)
SqlNull == << >>

SqlValue(n) == <<n>>

(* SUM(CASE WHEN is_completed THEN 1 ELSE 0 END) over the rows: NULL when  *)
(* there is no row, as SUM is in SQL                                       *)
SumCompleted(ta, rows) ==
    IF rows = {} THEN SqlNull
    ELSE SqlValue(Cardinality({k \in rows : ta[k].is_completed}))

(* what get_branch_task_progress returns: None (not a branch task) or the  *)
(* dictionary with total and completed                                     *)
Progress(task_id, found, total, completed) ==
    [op |-> "get_branch_task_progress", id |-> task_id, arg |-> NULL,
     flag |-> found, rows |-> 0, total |-> total, completed |-> completed]

GetBranchTaskProgress(task_id) ==
    IF task_id \notin RowsOf(tasks) \/ tasks[task_id].branch_id = NULL
    THEN Progress(task_id, FALSE, NULL, SqlNull)
    ELSE Progress(task_id, TRUE,
                  Cardinality(AssignmentsOf(task_assignments, task_id)),
                  SumCompleted(task_assignments,
                               AssignmentsOf(task_assignments, task_id)))

get_branch_task_progress(task_id) ==
    /\ last' = GetBranchTaskProgress(task_id)
    /\ UNCHANGED <<companies, branches, employee_roles, employees, tasks,
                   task_assignments, role_seq, task_seq>>
    /\ UNCHANGED <<messages, sessions>>

(* ----------------- the Assign Task form of a branch -------------------- *)
(* the employees the form offers the logged-in employee: a Manager gets    *)
(* the active employees of the branch other than himself, anyone else the  *)
(* active General Employees of the branch                                  *)
AssignableEmployees(current_employee) ==
    IF EmployeeRoleLevel(current_employee) = MANAGER
    THEN {e \in RowsOf(employees) :
             /\ HasRoleRow(e)
             /\ employees[e].branch_id = employees[current_employee].branch_id
             /\ employees[e].is_active
             /\ e # current_employee}
    ELSE {e \in RowsOf(employees) :
             /\ HasRoleRow(e)
             /\ employees[e].branch_id = employees[current_employee].branch_id
             /\ employees[e].is_active
             /\ EmployeeRoleLevel(e) = GENERAL_EMPLOYEE}

(* The Tasks tab is shown to role levels 1 and 2.  Submitting the form     *)
(* runs INSERT INTO tasks (branch_id, employee_id, ...) with the branch of *)
(* the logged-in employee and the selected employee; company_id is not     *)
(* given.                                                                  *)
manage_employee_tasks(current_employee, employee_id) ==
    /\ task_seq < MaxTasks
    /\ HasRoleRow(current_employee)
    /\ EmployeeRoleLevel(current_employee) \in {MANAGER, ASST_MANAGER}
    /\ employee_id \in AssignableEmployees(current_employee)
    /\ task_seq' = task_seq + 1
    /\ tasks' = Put(tasks, task_seq + 1,
                    NewTask(NULL, employees[current_employee].branch_id,
                            employee_id))
    /\ last' = Call("manage_employee_tasks", task_seq + 1, current_employee, TRUE)
    /\ UNCHANGED <<companies, branches, employee_roles, employees,
                   task_assignments, role_seq>>
    /\ UNCHANGED <<messages, sessions>>

(* ------------------------- the seeded store ---------------------------- *)
(* INSERT INTO employee_roles ... 'Manager', 1 / 'Asst. Manager', 2 /      *)
(* 'General Employee', 3 for one company, keys from first_id on            *)
DefaultRoles(company_id, first_id) ==
    [r \in first_id..(first_id + 2) |->
        [role_name |-> IF r = first_id THEN "Manager"
                       ELSE IF r = first_id + 1 THEN "Asst. Manager"
                       ELSE "General Employee",
         role_level |-> r - first_id + 1,
         company_id |-> company_id]]

NewBranch(company_id, parent_branch_id, is_main_branch) ==
    [company_id |-> company_id, parent_branch_id |-> parent_branch_id,
     is_main_branch |-> is_main_branch, is_active |-> TRUE]

(* ---------------------------- CompanyModel ----------------------------- *)
(* SELECT id FROM branches WHERE company_id = :company_id *)
CompanyBranchIds(company_id) ==
    {b \in RowsOf(branches) : branches[b].company_id = company_id}

(* UPDATE companies SET is_active = :is_active WHERE id = :id *)
SetCompanyStatus(co, company_id, is_active) ==
    [c \in DOMAIN co |->
        IF c = company_id THEN [co[c] EXCEPT !.is_active = is_active] ELSE co[c]]

(* UPDATE branches SET is_active = :is_active WHERE <id is in ids> *)
SetBranchStatus(br, ids, is_active) ==
    [b \in DOMAIN br |->
        IF b \in ids THEN [br[b] EXCEPT !.is_active = is_active] ELSE br[b]]

(* mutant of SetStatusOfBranchEmployees: the UPDATE employees statement    *)
(* left out                                                                *)
SetStatusOfBranchEmployees_skipped(em, ids, is_active) == em

(* UPDATE employees SET is_active = :is_active WHERE branch_id <is in ids> *)
SetStatusOfBranchEmployees(em, ids, is_active) ==
    [e \in DOMAIN em |->
        IF em[e].branch_id \in ids
        THEN [em[e] EXCEPT !.is_active = is_active]
        ELSE em[e]]

(* mutant of update_company_status: the employees follow the company only *)
(* when it is deactivated                                                  *)
update_company_status_deactivationOnly(company_id, is_active) ==
    /\ companies' = SetCompanyStatus(companies, company_id, is_active)
    /\ branches' = SetBranchStatus(branches, CompanyBranchIds(company_id), is_active)
    /\ employees' = IF is_active THEN employees
                    ELSE SetStatusOfBranchEmployees(
                             employees, CompanyBranchIds(company_id), is_active)
    /\ last' = Call("update_company_status", company_id, NULL, is_active)
    /\ UNCHANGED <<employee_roles, tasks, task_assignments, role_seq, task_seq>>
    /\ UNCHANGED <<messages, sessions>>

update_company_status(company_id, is_active) ==
    /\ companies' = SetCompanyStatus(companies, company_id, is_active)
    /\ branches' = SetBranchStatus(branches, CompanyBranchIds(company_id), is_active)
    /\ employees' = SetStatusOfBranchEmployees(
                        employees, CompanyBranchIds(company_id), is_active)
    /\ last' = Call("update_company_status", company_id, NULL, is_active)
    /\ UNCHANGED <<employee_roles, tasks, task_assignments, role_seq, task_seq>>
    /\ UNCHANGED <<messages, sessions>>

(* ----------------------------- BranchModel ----------------------------- *)
create_main_branch(company_id) ==
    /\ Cardinality(RowsOf(branches)) < MaxBranches
    /\ company_id \in RowsOf(companies)
    /\ LET id == Cardinality(RowsOf(branches)) + 1 IN
        /\ branches' = Put(branches, id, NewBranch(company_id, NULL, TRUE))
        /\ last' = Call("create_main_branch", id, NULL, TRUE)
    /\ UNCHANGED <<companies, employee_roles, employees, tasks,
                   task_assignments, role_seq, task_seq>>
    /\ UNCHANGED <<messages, sessions>>

create_sub_branch(company_id, parent_branch_id) ==
    /\ Cardinality(RowsOf(branches)) < MaxBranches
    /\ company_id \in RowsOf(companies)
    /\ parent_branch_id \in RowsOf(branches)
    /\ LET id == Cardinality(RowsOf(branches)) + 1 IN
        /\ branches' = Put(branches, id,
                           NewBranch(company_id, parent_branch_id, FALSE))
        /\ last' = Call("create_sub_branch", id, NULL, TRUE)
    /\ UNCHANGED <<companies, employee_roles, employees, tasks,
                   task_assignments, role_seq, task_seq>>
    /\ UNCHANGED <<messages, sessions>>

(* UPDATE branches SET branch_name = ..., location = ..., branch_head = ... *)
(* [, parent_branch_id = :parent_branch_id] WHERE id = :branch_id.  The    *)
(* parent is set when one is given (NULL stands for None) and the branch   *)
(* is not a main branch; parent_branch_id REFERENCES branches(id), and a   *)
(* parent that is no row makes the store reject the statement.  The name,  *)
(* location and head are not part of the rows here.                        *)
update_branch(branch_id, parent_branch_id) ==
    /\ branch_id \in RowsOf(branches)
    /\ IF parent_branch_id = NULL \/ branches[branch_id].is_main_branch
       THEN /\ branches' = branches
            /\ last' = Call("update_branch", branch_id, parent_branch_id, TRUE)
       ELSE IF parent_branch_id \in RowsOf(branches)
       THEN /\ branches' = [branches EXCEPT
                               ![branch_id].parent_branch_id = parent_branch_id]
            /\ last' = Call("update_branch", branch_id, parent_branch_id, TRUE)
       ELSE /\ branches' = branches
            /\ last' = Call("update_branch", branch_id, parent_branch_id, FALSE)
    /\ UNCHANGED <<companies, employee_roles, employees, tasks,
                   task_assignments, role_seq, task_seq>>
    /\ UNCHANGED <<messages, sessions>>

(* mutant of update_branch_status: the employees follow the branch only    *)
(* when it is deactivated                                                  *)
update_branch_status_deactivationOnly(branch_id, is_active) ==
    /\ branches' = SetBranchStatus(branches, {branch_id}, is_active)
    /\ employees' = IF is_active THEN employees
                    ELSE SetStatusOfBranchEmployees(employees, {branch_id}, is_active)
    /\ last' = Call("update_branch_status", branch_id, NULL, is_active)
    /\ UNCHANGED <<companies, employee_roles, tasks, task_assignments,
                   role_seq, task_seq>>
    /\ UNCHANGED <<messages, sessions>>

update_branch_status(branch_id, is_active) ==
    /\ branches' = SetBranchStatus(branches, {branch_id}, is_active)
    /\ employees' = SetStatusOfBranchEmployees(employees, {branch_id}, is_active)
    /\ last' = Call("update_branch_status", branch_id, NULL, is_active)
    /\ UNCHANGED <<companies, employee_roles, tasks, task_assignments,
                   role_seq, task_seq>>
    /\ UNCHANGED <<messages, sessions>>

(* ------------------------------ RoleModel ------------------------------ *)
(* UNIQUE(company_id, role_name) of employee_roles *)
RoleNameTaken(company_id, role_name) ==
    \E r \in RowsOf(employee_roles) :
        /\ employee_roles[r].company_id = company_id
        /\ employee_roles[r].role_name = role_name

create_role(company_id, role_name, role_level) ==
    /\ role_seq < MaxRoles
    /\ company_id \in RowsOf(companies)
    /\ role_seq' = role_seq + 1
    /\ IF RoleNameTaken(company_id, role_name)
       THEN /\ employee_roles' = employee_roles
            /\ last' = Call("create_role", NULL, NULL, FALSE)
       ELSE /\ employee_roles' = Put(employee_roles, role_seq + 1,
                  [role_name |-> role_name, role_level |-> role_level,
                   company_id |-> company_id])
            /\ last' = Call("create_role", role_seq + 1, NULL, TRUE)
    /\ UNCHANGED <<companies, branches, employees, tasks, task_assignments,
                   task_seq>>
    /\ UNCHANGED <<messages, sessions>>

(* UPDATE employees SET role_id = :role_id WHERE id = :employee_id;        *)
(* role_id REFERENCES employee_roles(id)                                   *)
update_employee_role(employee_id, role_id) ==
    /\ employee_id \in RowsOf(employees)
    /\ role_id \in RowsOf(employee_roles)
    /\ employees' = [employees EXCEPT ![employee_id].role_id = role_id]
    /\ last' = Call("update_employee_role", employee_id, role_id, TRUE)
    /\ UNCHANGED <<companies, branches, employee_roles, tasks,
                   task_assignments, role_seq, task_seq>>
    /\ UNCHANGED <<messages, sessions>>

(* the employees rows WHERE role_id = :role_id *)
RoleHolders(em, role_id) == {e \in DOMAIN em : em[e].role_id = role_id}

(* mutant of ReassignRole: the UPDATE employees statement left out *)
ReassignRole_skipped(em, role_id, replacement_role_id) == em

(* UPDATE employees SET role_id = :replacement_role_id                     *)
(* WHERE role_id = :role_id                                                *)
ReassignRole(em, role_id, replacement_role_id) ==
    [e \in DOMAIN em |->
        IF em[e].role_id = role_id
        THEN [em[e] EXCEPT !.role_id = replacement_role_id]
        ELSE em[e]]

(* employees.role_id REFERENCES employee_roles(id): every non-null role_id *)
(* of em is a row of ro                                                    *)
RoleReferencesHold(em, ro) ==
    \A e \in DOMAIN em : em[e].role_id = NULL \/ em[e].role_id \in DOMAIN ro

(* Both statements run in one transaction.  The store checks the foreign   *)
(* key of employees.role_id at the end of each statement; a statement it   *)
(* rejects raises out of the block, which rolls the transaction back.      *)
delete_role(role_id, replacement_role_id) ==
    LET reassigned == ReassignRole(employees, role_id, replacement_role_id)
        remaining == Drop(employee_roles, {role_id})
    IN
    /\ IF /\ RoleReferencesHold(reassigned, employee_roles)
          /\ RoleReferencesHold(reassigned, remaining)
       THEN /\ employees' = reassigned
            /\ employee_roles' = remaining
            /\ last' = CallRows("delete_role", role_id, replacement_role_id, TRUE,
                                Cardinality(RoleHolders(employees, role_id)))
       ELSE /\ UNCHANGED <<employees, employee_roles>>
            /\ last' = CallRows("delete_role", role_id, replacement_role_id, FALSE,
                                Cardinality(RoleHolders(employees, role_id)))
    /\ UNCHANGED <<companies, branches, tasks, task_assignments,
                   role_seq, task_seq>>
    /\ UNCHANGED <<messages, sessions>>

(* ------------------ connections and their transactions ----------------- *)
(* Every browser session runs its handlers on connections of its own.      *)
(* Inside a with conn.begin() block the statements run one by one; the     *)
(* rows they write stay with the transaction until the block exits, which  *)
(* commits them together, and an exception raised inside the block rolls   *)
(* them back.  The store runs at its default isolation level, READ         *)
(* COMMITTED: a statement sees the rows committed when it starts and the   *)
(* rows its own transaction wrote, and a statement that writes a row       *)
(* another open transaction wrote waits until that transaction has ended.  *)
Sessions == 1..MaxSessions

(* the rows a transaction wrote and has not committed, per table, and the  *)
(* employee_roles rows it deleted                                          *)
NoWrites ==
    [tasks |-> Empty, task_assignments |-> Empty, employees |-> Empty,
     branches |-> Empty, deleted_roles |-> {}]

(* one connection: the operation it runs, the statement it is at, the      *)
(* arguments and the result of the operation (id, arg and flag as in the   *)
(* call record), the now it read, the rows its SELECT or UPDATE matched    *)
(* and the rows it wrote                                                   *)
Session(op, pc, id, arg, flag, now, rows, w) ==
    [op |-> op, pc |-> pc, id |-> id, arg |-> arg, flag |-> flag,
     now |-> now, rows |-> rows, w |-> w]

IdleSession == Session("idle", "idle", NULL, NULL, FALSE, NULL, {}, NoWrites)

NoSessions == [s \in Sessions |-> IdleSession]

(* the connection has no open transaction *)
Ready(s) == sessions[s].pc \in {"idle", "returned"}

(* the call is over, with this result: the connection keeps the operation, *)
(* its arguments and its result, and no row of the transaction             *)
Returned(c, flag) ==
    [c EXCEPT !.pc = "returned", !.flag = flag, !.now = NULL, !.rows = {},
              !.w = NoWrites]

(* the keys of the rows of a table that open transactions of the other     *)
(* connections wrote: a statement of s that writes one of them waits       *)
WrittenByOthers(s, table) ==
    UNION {DOMAIN sessions[o].w[table] : o \in Sessions \ {s}}

(* mutant of InsideTransaction: no block, every statement commits by       *)
(* itself                                                                  *)
InsideTransaction_autocommit(table, written) == Merge(written, table)

(* the committed rows of a table after a statement of an open transaction  *)
(* wrote the rows written: inside the block nothing is committed           *)
InsideTransaction(table, written) == table

(* the rows of tasks a statement of s sees *)
SeenTasks(s) == Merge(sessions[s].w.tasks, tasks)

(* mutant of SeenAssignments: the statement also sees what the open        *)
(* transactions of the other connections wrote                             *)
SeenAssignments_uncommitted(s) ==
    [k \in DOMAIN task_assignments |->
        IF k \in DOMAIN sessions[s].w.task_assignments
        THEN sessions[s].w.task_assignments[k]
        ELSE IF k \in WrittenByOthers(s, "task_assignments")
        THEN LET o == CHOOSE o \in Sessions \ {s} :
                          k \in DOMAIN sessions[o].w.task_assignments
             IN sessions[o].w.task_assignments[k]
        ELSE task_assignments[k]]

(* the rows of task_assignments a statement of s sees *)
SeenAssignments(s) == Merge(sessions[s].w.task_assignments, task_assignments)

(* the rows of employees a statement of s sees *)
SeenEmployees(s) == Merge(sessions[s].w.employees, employees)

(* leaving the with block: the rows the transaction wrote are committed    *)
(* together and the call returns                                           *)
commit(s) ==
    /\ sessions[s].pc = "commit"
    /\ LET c == sessions[s] IN
        /\ tasks' = Merge(c.w.tasks, tasks)
        /\ task_assignments' = Merge(c.w.task_assignments, task_assignments)
        /\ employees' = Merge(c.w.employees, employees)
        /\ branches' = Merge(c.w.branches, branches)
        /\ employee_roles' = Drop(employee_roles, c.w.deleted_roles)
        /\ sessions' = [sessions EXCEPT ![s] = Returned(c, c.flag)]
        /\ last' = CallRows(c.op, c.id, c.arg, c.flag, Cardinality(c.rows))
    /\ UNCHANGED <<companies, messages, role_seq, task_seq>>

(* --------------- create_task, statement by statement ------------------- *)
(* INSERT INTO tasks ... RETURNING id; the SERIAL key is taken at once     *)
create_task_insert_task(s, company_id, branch_id, employee_id) ==
    /\ Ready(s)
    /\ task_seq < MaxTasks
    /\ company_id \in RowsOf(companies)
    /\ branch_id \in RowsOf(branches) \cup {NULL}
    /\ employee_id \in RowsOf(employees) \cup {NULL}
    /\ LET task_id == task_seq + 1
           w == [NoWrites EXCEPT !.tasks =
                    Put(Empty, task_id, NewTask(company_id, branch_id, employee_id))]
       IN
        /\ task_seq' = task_id
        /\ sessions' = [sessions EXCEPT ![s] =
              Session("create_task",
                      IF branch_id # NULL /\ employee_id = NULL
                      THEN "select_employees" ELSE "commit",
                      task_id, branch_id, TRUE, NULL, {}, w)]
        /\ tasks' = InsideTransaction(tasks, w.tasks)
    /\ UNCHANGED <<companies, branches, employee_roles, employees,
                   task_assignments, messages, role_seq, last>>

(* SELECT id FROM employees WHERE branch_id = :branch_id AND is_active *)
create_task_select_employees(s) ==
    /\ sessions[s].op = "create_task"
    /\ sessions[s].pc = "select_employees"
    /\ LET rows == ActiveBranchEmployees(sessions[s].arg) IN
        sessions' = [sessions EXCEPT
            ![s].rows = rows,
            ![s].pc = IF rows = {} THEN "commit" ELSE "insert_assignment"]
    /\ UNCHANGED <<companies, branches, employee_roles, employees, tasks,
                   task_assignments, messages, role_seq, task_seq, last>>

(* one turn of the for loop: INSERT INTO task_assignments for one of the   *)
(* fetched employees not yet served                                        *)
create_task_insert_assignment(s, employee_id) ==
    /\ sessions[s].op = "create_task"
    /\ sessions[s].pc = "insert_assignment"
    /\ employee_id \in sessions[s].rows
    /\ <<sessions[s].id, employee_id>> \notin DOMAIN sessions[s].w.task_assignments
    /\ LET written == Put(sessions[s].w.task_assignments,
                          <<sessions[s].id, employee_id>>, NewAssignment)
       IN
        /\ sessions' = [sessions EXCEPT
              ![s].w.task_assignments = written,
              ![s].pc = IF {k[2] : k \in DOMAIN written} = sessions[s].rows
                        THEN "commit" ELSE "insert_assignment"]
        /\ task_assignments' = InsideTransaction(task_assignments, written)
    /\ UNCHANGED <<companies, branches, employee_roles, employees, tasks,
                   messages, role_seq, task_seq, last>>

(* --------------- delete_role, statement by statement ------------------- *)
(* UPDATE employees SET role_id = :replacement_role_id WHERE role_id =     *)
(* :role_id; the store rejects it when a row would reference no role, and  *)
(* it waits while another open transaction wrote one of the rows or        *)
(* deleted the replacement                                                 *)
delete_role_update_employees(s, role_id, replacement_role_id) ==
    /\ Ready(s)
    /\ LET holders == RoleHolders(employees, role_id)
           reassigned == ReassignRole(employees, role_id, replacement_role_id)
           c == Session("delete_role", "delete_role_row", role_id,
                        replacement_role_id, TRUE, NULL, holders,
                        [NoWrites EXCEPT !.employees =
                            [e \in holders |-> reassigned[e]]])
       IN
        /\ holders \cap WrittenByOthers(s, "employees") = {}
        /\ \A o \in Sessions \ {s} :
              replacement_role_id \notin sessions[o].w.deleted_roles
        /\ IF RoleReferencesHold(reassigned, employee_roles)
           THEN /\ sessions' = [sessions EXCEPT ![s] = c]
                /\ employees' = InsideTransaction(employees, c.w.employees)
                /\ last' = last
           ELSE /\ sessions' = [sessions EXCEPT ![s] = Returned(c, FALSE)]
                /\ employees' = employees
                /\ last' = CallRows("delete_role", role_id, replacement_role_id,
                                    FALSE, Cardinality(holders))
    /\ UNCHANGED <<companies, branches, employee_roles, tasks,
                   task_assignments, messages, role_seq, task_seq>>

(* DELETE FROM employee_roles WHERE id = :role_id; the store rejects it    *)
(* when an employees row the statement sees references the role, and it    *)
(* waits while another open transaction wrote a row that references it     *)
delete_role_delete_role(s) ==
    /\ sessions[s].op = "delete_role"
    /\ sessions[s].pc = "delete_role_row"
    /\ \A o \in Sessions \ {s} : \A e \in DOMAIN sessions[o].w.employees :
          sessions[o].w.employees[e].role_id # sessions[s].id
    /\ IF RoleReferencesHold(SeenEmployees(s),
                             Drop(employee_roles, {sessions[s].id}))
       THEN /\ sessions' = [sessions EXCEPT
                  ![s].w.deleted_roles = {sessions[s].id},
                  ![s].pc = "commit"]
            /\ last' = last
       ELSE /\ sessions' = [sessions EXCEPT ![s] = Returned(sessions[s], FALSE)]
            /\ last' = CallRows("delete_role", sessions[s].id, sessions[s].arg,
                                FALSE, Cardinality(sessions[s].rows))
    /\ UNCHANGED <<companies, branches, employee_roles, employees, tasks,
                   task_assignments, messages, role_seq, task_seq>>

(* ----------- update_branch_status, statement by statement -------------- *)
(* UPDATE branches SET is_active = :is_active WHERE id = :id *)
update_branch_status_update_branch(s, branch_id, is_active) ==
    /\ Ready(s)
    /\ branch_id \notin WrittenByOthers(s, "branches")
    /\ LET w == [NoWrites EXCEPT !.branches =
                    [b \in {branch_id} \cap RowsOf(branches) |->
                        SetBranchStatus(branches, {branch_id}, is_active)[b]]]
       IN
        /\ sessions' = [sessions EXCEPT ![s] =
              Session("update_branch_status", "update_employees", branch_id,
                      NULL, is_active, NULL, {}, w)]
        /\ branches' = InsideTransaction(branches, w.branches)
    /\ UNCHANGED <<companies, employee_roles, employees, tasks,
                   task_assignments, messages, role_seq, task_seq, last>>

(* UPDATE employees SET is_active = :is_active WHERE branch_id = :id *)
update_branch_status_update_employees(s) ==
    /\ sessions[s].op = "update_branch_status"
    /\ sessions[s].pc = "update_employees"
    /\ LET rows == {e \in RowsOf(employees) :
                       employees[e].branch_id = sessions[s].id}
           written == [e \in rows |->
                          SetStatusOfBranchEmployees(
                              employees, {sessions[s].id}, sessions[s].flag)[e]]
       IN
        /\ rows \cap WrittenByOthers(s, "employees") = {}
        /\ sessions' = [sessions EXCEPT
              ![s].rows = rows, ![s].w.employees = written, ![s].pc = "commit"]
        /\ employees' = InsideTransaction(employees, written)
    /\ UNCHANGED <<companies, branches, employee_roles, tasks,
                   task_assignments, messages, role_seq, task_seq, last>>

(* ----------- mark_task_completed, statement by statement --------------- *)
(* SELECT branch_id, employee_id, is_completed FROM tasks WHERE id =       *)
(* :task_id, and the tests on its row that choose the next statement; a    *)
(* return leaves the block, which commits                                  *)
mark_task_completed_select_task(s, task_id, employee_id, now) ==
    /\ Ready(s)
    /\ employee_id \in RowsOf(employees)
    /\ LET found == task_id \in RowsOf(tasks)
           pc == IF ~found THEN "commit"
                 ELSE IF tasks[task_id].is_completed THEN "commit"
                 ELSE IF tasks[task_id].branch_id # NULL THEN "update_assignment"
                 ELSE IF tasks[task_id].employee_id = employee_id
                 THEN "update_task"
                 ELSE "commit"
       IN
        sessions' = [sessions EXCEPT ![s] =
            Session("mark_task_completed", pc, task_id, employee_id,
                    found /\ tasks[task_id].is_completed, now, {}, NoWrites)]
    /\ UNCHANGED <<companies, branches, employee_roles, employees, tasks,
                   task_assignments, messages, role_seq, task_seq, last>>

(* UPDATE task_assignments SET is_completed = TRUE, completed_at = :now    *)
(* WHERE task_id = :task_id AND employee_id = :employee_id                 *)
mark_task_completed_update_assignment(s) ==
    /\ sessions[s].op = "mark_task_completed"
    /\ sessions[s].pc = "update_assignment"
    /\ LET c == sessions[s]
           key == <<c.id, c.arg>>
           written == IF key \in DOMAIN SeenAssignments(s)
                      THEN Put(c.w.task_assignments, key,
                               CompleteAssignment(SeenAssignments(s),
                                                  c.id, c.arg, c.now)[key])
                      ELSE c.w.task_assignments
       IN
        /\ key \notin WrittenByOthers(s, "task_assignments")
        /\ sessions' = [sessions EXCEPT
              ![s].w.task_assignments = written, ![s].pc = "select_role"]
        /\ task_assignments' = InsideTransaction(task_assignments, written)
    /\ UNCHANGED <<companies, branches, employee_roles, employees, tasks,
                   messages, role_seq, task_seq, last>>

(* SELECT r.role_level FROM employees e JOIN employee_roles r ..., and the *)
(* is_manager test                                                         *)
mark_task_completed_select_role(s) ==
    /\ sessions[s].op = "mark_task_completed"
    /\ sessions[s].pc = "select_role"
    /\ sessions' = [sessions EXCEPT
          ![s].pc = IF IsManager(sessions[s].arg)
                    THEN "update_task" ELSE "all_complete"]
    /\ UNCHANGED <<companies, branches, employee_roles, employees, tasks,
                   task_assignments, messages, role_seq, task_seq, last>>

\* SELECT COUNT = 0 FROM task_assignments WHERE task_id = :task_id AND
\* is_completed = FALSE, and the all_complete test
mark_task_completed_all_complete(s) ==
    /\ sessions[s].op = "mark_task_completed"
    /\ sessions[s].pc = "all_complete"
    /\ sessions' = [sessions EXCEPT
          ![s].pc = IF AllComplete(SeenAssignments(s), sessions[s].id)
                    THEN "update_task" ELSE "commit"]
    /\ UNCHANGED <<companies, branches, employee_roles, employees, tasks,
                   task_assignments, messages, role_seq, task_seq, last>>

(* UPDATE tasks SET is_completed = TRUE, completed_at = :now,              *)
(* completed_by_id = :employee_id WHERE id = :task_id; return True         *)
mark_task_completed_update_task(s) ==
    /\ sessions[s].op = "mark_task_completed"
    /\ sessions[s].pc = "update_task"
    /\ LET c == sessions[s]
           written == IF c.id \in DOMAIN SeenTasks(s)
                      THEN Put(c.w.tasks, c.id,
                               CompleteTask(SeenTasks(s), c.id, c.arg, c.now)[c.id])
                      ELSE c.w.tasks
       IN
        /\ c.id \notin WrittenByOthers(s, "tasks")
        /\ sessions' = [sessions EXCEPT
              ![s].w.tasks = written, ![s].flag = TRUE, ![s].pc = "commit"]
        /\ tasks' = InsideTransaction(tasks, written)
    /\ UNCHANGED <<companies, branches, employee_roles, employees,
                   task_assignments, messages, role_seq, task_seq, last>>

(* ----------------------------- authenticate ---------------------------- *)
(* st.secrets["admin_username"] and st.secrets["admin_password"] *)
admin_username == "admin"

admin_password == "secret"

(* the dictionary authenticate returns: its user_type and id and, for an   *)
(* employee, the keys of the joined rows; user_type "none" is None         *)
User(user_type, id, branch_id, company_id, role_id) ==
    [user_type |-> user_type, id |-> id, branch_id |-> branch_id,
     company_id |-> company_id, role_id |-> role_id]

NoUser == User("none", NULL, NULL, NULL, NULL)

(* SELECT ... FROM companies WHERE username = :username AND password =     *)
(* :password AND is_active = TRUE                                          *)
CompanyLogin(username, password) ==
    {c \in RowsOf(companies) :
        /\ companies[c].username = username
        /\ companies[c].password = password
        /\ companies[c].is_active}

(* mutant of EmployeeLogin: AND c.is_active = TRUE dropped *)
EmployeeLogin_anyCompany(username, password) ==
    {e \in RowsOf(employees) :
        /\ employees[e].username = username
        /\ employees[e].password = password
        /\ employees[e].branch_id \in RowsOf(branches)
        /\ branches[employees[e].branch_id].company_id \in RowsOf(companies)
        /\ employees[e].role_id \in RowsOf(employee_roles)
        /\ employees[e].is_active
        /\ branches[employees[e].branch_id].is_active}

(* SELECT ... FROM employees e JOIN branches b ... JOIN companies c ...     *)
(* JOIN employee_roles r ... WHERE e.username = :username AND e.password = *)
(* :password AND e.is_active AND b.is_active AND c.is_active               *)
EmployeeLogin(username, password) ==
    {e \in RowsOf(employees) :
        /\ employees[e].username = username
        /\ employees[e].password = password
        /\ employees[e].branch_id \in RowsOf(branches)
        /\ branches[employees[e].branch_id].company_id \in RowsOf(companies)
        /\ employees[e].role_id \in RowsOf(employee_roles)
        /\ employees[e].is_active
        /\ branches[employees[e].branch_id].is_active
        /\ companies[branches[employees[e].branch_id].company_id].is_active}

(* the administrator first, then the companies, then the employees; the   *)
(* UNIQUE usernames leave fetchone at most one row to return               *)
Authenticate(username, password) ==
    IF username = admin_username /\ password = admin_password
    THEN User("admin", 0, NULL, NULL, NULL)
    ELSE IF CompanyLogin(username, password) # {}
    THEN User("company", CHOOSE c \in CompanyLogin(username, password) : TRUE,
              NULL, NULL, NULL)
    ELSE IF EmployeeLogin(username, password) # {}
    THEN LET e == CHOOSE e \in EmployeeLogin(username, password) : TRUE IN
         User("employee", e, employees[e].branch_id,
              branches[employees[e].branch_id].company_id, employees[e].role_id)
    ELSE NoUser

(* the call record of authenticate: its arguments and the user it returns *)
AuthCall(username, password, user) ==
    [op |-> "authenticate", id |-> username, arg |-> password,
     flag |-> user.user_type # "none", rows |-> 0, user |-> user]

authenticate(username, password) ==
    /\ last' = AuthCall(username, password, Authenticate(username, password))
    /\ UNCHANGED <<companies, branches, employee_roles, employees, tasks,
                   task_assignments, role_seq, task_seq>>
    /\ UNCHANGED <<messages, sessions>>

(* ----------------------------- MessageModel ---------------------------- *)
(* INSERT INTO messages (..., is_read) VALUES (..., FALSE) *)
send_message(sender_type, sender_id, receiver_type, receiver_id, message_text) ==
    /\ Cardinality(RowsOf(messages)) < MaxMessages
    /\ LET id == Cardinality(RowsOf(messages)) + 1 IN
        /\ messages' = Put(messages, id,
              [sender_type |-> sender_type, sender_id |-> sender_id,
               receiver_type |-> receiver_type, receiver_id |-> receiver_id,
               message_text |-> message_text, is_read |-> FALSE])
        /\ last' = Call("send_message", id, NULL, TRUE)
    /\ UNCHANGED <<companies, branches, employee_roles, employees, tasks,
                   task_assignments, role_seq, task_seq, sessions>>

(* UPDATE messages SET is_read = TRUE WHERE id = :id, for every id of ids *)
MarkAsRead(ms, ids) ==
    [m \in DOMAIN ms |->
        IF m \in ids THEN [ms[m] EXCEPT !.is_read = TRUE] ELSE ms[m]]

mark_as_read(message_id) ==
    /\ messages' = MarkAsRead(messages, {message_id})
    /\ last' = Call("mark_as_read", message_id, NULL, TRUE)
    /\ UNCHANGED <<companies, branches, employee_roles, employees, tasks,
                   task_assignments, role_seq, task_seq, sessions>>

(* get_messages_for_admin: WHERE m.receiver_type = 'admin' *)
MessagesForAdmin ==
    {m \in RowsOf(messages) : messages[m].receiver_type = "admin"}

(* get_messages_for_company: WHERE (m.receiver_type = 'company' AND        *)
(* m.receiver_id = :company_id) OR (m.sender_type = 'company' AND          *)
(* m.sender_id = :company_id)                                              *)
MessagesForCompany(company_id) ==
    {m \in RowsOf(messages) :
        \/ /\ messages[m].receiver_type = "company"
           /\ messages[m].receiver_id = company_id
        \/ /\ messages[m].sender_type = "company"
           /\ messages[m].sender_id = company_id}

(* mutant of UnreadFromAdmin: the is_from_admin test dropped *)
UnreadFromAdmin_anySender(fetched) ==
    {m \in fetched : ~messages[m].is_read}

(* the fetched messages the loop marks: is_from_admin and not is_read *)
UnreadFromAdmin(fetched) ==
    {m \in fetched : messages[m].sender_type = "admin" /\ ~messages[m].is_read}

(* the fetch and the loop of mark_as_read calls over what it returned *)
display_message_history(company_id) ==
    /\ messages' = MarkAsRead(messages,
                              UnreadFromAdmin(MessagesForCompany(company_id)))
    /\ last' = Call("display_message_history", company_id, NULL, TRUE)
    /\ UNCHANGED <<companies, branches, employee_roles, employees, tasks,
                   task_assignments, role_seq, task_seq, sessions>>

(* ---------------------------- RolePermissions -------------------------- *)
(* return user_role_level <= RolePermissions.ASST_MANAGER *)
can_create_employees(user_role_level) == user_role_level <= ASST_MANAGER

(* mutant of can_assign_tasks_to: the Manager's test is > ASST_MANAGER *)
can_assign_tasks_to_juniorOnly(user_role_level, target_role_level) ==
    IF user_role_level = MANAGER
    THEN target_role_level > ASST_MANAGER
    ELSE IF user_role_level = ASST_MANAGER
    THEN target_role_level = GENERAL_EMPLOYEE
    ELSE FALSE

can_assign_tasks_to(user_role_level, target_role_level) ==
    IF user_role_level = MANAGER
    THEN target_role_level >= ASST_MANAGER
    ELSE IF user_role_level = ASST_MANAGER
    THEN target_role_level = GENERAL_EMPLOYEE
    ELSE FALSE

can_view_reports_of(user_role_level, target_role_level) ==
    IF user_role_level = MANAGER
    THEN TRUE
    ELSE IF user_role_level = ASST_MANAGER
    THEN target_role_level >= ASST_MANAGER
    ELSE user_role_level = target_role_level

(* mutant of can_deactivate_role: every level but the Manager's is treated *)
(* as the Asst. Manager's                                                  *)
can_deactivate_role_twoWay(user_role_level, target_role_level) ==
    IF user_role_level = MANAGER
    THEN target_role_level > user_role_level
    ELSE target_role_level = GENERAL_EMPLOYEE

can_deactivate_role(user_role_level, target_role_level) ==
    IF user_role_level = MANAGER
    THEN target_role_level > user_role_level
    ELSE IF user_role_level = ASST_MANAGER
    THEN target_role_level = GENERAL_EMPLOYEE
    ELSE FALSE

(* one call of a RolePermissions function: its name, its arguments and     *)
(* what it returned                                                        *)
permission_check(op, user_role_level, target_role_level, result) ==
    /\ last' = Call(op, user_role_level, target_role_level, result)
    /\ UNCHANGED <<companies, branches, employee_roles, employees, tasks,
                   task_assignments, role_seq, task_seq>>
    /\ UNCHANGED <<messages, sessions>>

(* ------------------------------ date ranges ---------------------------- *)
(* datetime.date: the proleptic Gregorian calendar *)
IsLeap(year) == year % 4 = 0 /\ (year % 100 # 0 \/ year % 400 = 0)

DaysInMonth(year, month) ==
    IF month = 2 THEN (IF IsLeap(year) THEN 29 ELSE 28)
    ELSE IF month \in {4, 6, 9, 11} THEN 30 ELSE 31

(* datetime.date(year, month, day) *)
Date(year, month, day) == [year |-> year, month |-> month, day |-> day]

(* the days before 1 January of the year, counted from 0001-01-01 *)
DaysBeforeYear(year) ==
    LET y == year - 1 IN y * 365 + (y \div 4) - (y \div 100) + (y \div 400)

RECURSIVE DaysBeforeMonth(_, _)
DaysBeforeMonth(year, month) ==
    IF month = 1 THEN 0
    ELSE DaysBeforeMonth(year, month - 1) + DaysInMonth(year, month - 1)

(* date.toordinal(): 0001-01-01 is day 1 *)
ToOrdinal(d) == DaysBeforeYear(d.year) + DaysBeforeMonth(d.year, d.month) + d.day

(* date.fromordinal(n), the inverse of toordinal: the year whose days     *)
(* hold n, then the month, then the day that is left                       *)
FromOrdinal(n) ==
    LET year == CHOOSE y \in (MinYear - 1)..MaxYear :
                    DaysBeforeYear(y) < n /\ n <= DaysBeforeYear(y + 1)
        rest == n - DaysBeforeYear(year)
        month == CHOOSE m \in 1..12 :
                    /\ DaysBeforeMonth(year, m) < rest
                    /\ rest <= DaysBeforeMonth(year, m) + DaysInMonth(year, m)
    IN Date(year, month, rest - DaysBeforeMonth(year, month))

(* date - timedelta(days=days) *)
MinusDays(d, days) == FromOrdinal(ToOrdinal(d) - days)

(* mutant of Weekday: isoweekday, Monday is 1 and Sunday is 7 *)
Weekday_isoweekday(d) == ((ToOrdinal(d) + 6) % 7) + 1

(* date.weekday(): Monday is 0 and Sunday is 6 *)
Weekday(d) == (ToOrdinal(d) + 6) % 7

last_month(today) == IF today.month > 1 THEN today.month - 1 ELSE 12

(* mutant of last_month_year: the year is not decremented in January *)
last_month_year_sameYear(today) == today.year

last_month_year(today) == IF today.month > 1 THEN today.year ELSE today.year - 1

(* the pair (start_date, end_date) a preset yields *)
DateRange(start_date, end_date) == [start_date |-> start_date, end_date |-> end_date]

ThisWeek(today) == DateRange(MinusDays(today, Weekday(today)), today)

ThisMonth(today) == DateRange([today EXCEPT !.day = 1], today)

LastMonth(today) ==
    DateRange(Date(last_month_year(today), last_month(today), 1),
              IF last_month(today) = 12
              THEN Date(last_month_year(today), last_month(today), 31)
              ELSE MinusDays(Date(last_month_year(today), last_month(today) + 1, 1), 1))

(* two times: back to the last day of the month before, then to its day 1 *)
Last3Months(today) ==
    LET first == [MinusDays([today EXCEPT !.day = 1], 1) EXCEPT !.day = 1] IN
    DateRange([MinusDays(first, 1) EXCEPT !.day = 1], today)

(* get_date_range_from_filter: the presets of the report screens that     *)
(* call it; every other filter is All Time                                 *)
GetDateRangeFromFilter(date_filter, today) ==
    CASE date_filter = "Today" -> DateRange(today, today)
      [] date_filter = "This Week" -> ThisWeek(today)
      [] date_filter = "This Month" -> ThisMonth(today)
      [] date_filter = "This Year" -> DateRange([today EXCEPT !.month = 1, !.day = 1], today)
      [] OTHER -> DateRange(Date(2000, 1, 1), today)

(* the date range calculation of view_branch_employee_reports; Custom     *)
(* Range takes both dates from the form                                    *)
BranchReportsDateRange(date_filter, today) ==
    CASE date_filter = "Today" -> DateRange(today, today)
      [] date_filter = "This Week" -> ThisWeek(today)
      [] date_filter = "This Month" -> ThisMonth(today)
      [] date_filter = "Last Month" -> LastMonth(today)
      [] date_filter = "Last 3 Months" -> Last3Months(today)

(* the call record of a date range calculation: the preset, today and the *)
(* range                                                                   *)
DateCall(op, date_filter, today, range) ==
    [op |-> op, id |-> date_filter, arg |-> today, flag |-> TRUE, rows |-> 0,
     start_date |-> range.start_date, end_date |-> range.end_date]

get_date_range_from_filter(date_filter, today) ==
    /\ last' = DateCall("get_date_range_from_filter", date_filter, today,
                        GetDateRangeFromFilter(date_filter, today))
    /\ UNCHANGED <<companies, branches, employee_roles, employees, tasks,
                   task_assignments, role_seq, task_seq>>
    /\ UNCHANGED <<messages, sessions>>

view_branch_employee_reports(date_filter, today) ==
    /\ last' = DateCall("view_branch_employee_reports", date_filter, today,
                        BranchReportsDateRange(date_filter, today))
    /\ UNCHANGED <<companies, branches, employee_roles, employees, tasks,
                   task_assignments, role_seq, task_seq>>
    /\ UNCHANGED <<messages, sessions>>

(* ------------------------ init_db: the role seed ----------------------- *)
(* INSERT INTO companies (..., is_active) VALUES (..., TRUE) *)
add_company ==
    /\ Cardinality(RowsOf(companies)) < MaxCompanies
    /\ LET id == Cardinality(RowsOf(companies)) + 1 IN
        /\ companies' = Put(companies, id, [is_active |-> TRUE])
        /\ last' = Call("add_company", id, NULL, TRUE)
    /\ UNCHANGED <<branches, employee_roles, employees, tasks,
                   task_assignments, role_seq, task_seq>>
    /\ UNCHANGED <<messages, sessions>>

(* the table and the sequence of its keys, as a statement leaves them *)
Seeded(ro, seq) == [ro |-> ro, seq |-> seq]

(* mutant of CompaniesWithout: the WHERE NOT EXISTS condition dropped *)
CompaniesWithout_all(ro, role_name) == RowsOf(companies)

(* SELECT id FROM companies WHERE NOT EXISTS (SELECT 1 FROM employee_roles *)
(* WHERE role_name = :role_name AND company_id = companies.id)             *)
CompaniesWithout(ro, role_name) ==
    {c \in RowsOf(companies) :
        ~\E r \in DOMAIN ro :
            ro[r].role_name = role_name /\ ro[r].company_id = c}

(* INSERT INTO employee_roles (role_name, role_level, company_id) SELECT   *)
(* :role_name, :role_level, id FROM companies WHERE NOT EXISTS ...: one    *)
(* row for each selected company, the keys taken from the sequence in the  *)
(* order of the company ids                                                *)
SeedRole(t, role_name, role_level) ==
    LET missing == CompaniesWithout(t.ro, role_name)
        new == (t.seq + 1)..(t.seq + Cardinality(missing))
    IN
    Seeded([r \in DOMAIN t.ro \cup new |->
               IF r \in new
               THEN [role_name |-> role_name, role_level |-> role_level,
                     company_id |->
                        CHOOSE c \in missing :
                            Cardinality({x \in missing : x <= c}) = r - t.seq]
               ELSE t.ro[r]],
           t.seq + Cardinality(missing))

(* UNIQUE(company_id, role_name) of employee_roles *)
RoleNamesUnique(ro) ==
    \A r1, r2 \in DOMAIN ro :
        ( /\ ro[r1].company_id = ro[r2].company_id
          /\ ro[r1].role_name = ro[r2].role_name ) => r1 = r2

(* the three INSERT statements of init_db, one after the other *)
SeedDefaultRoles(ro, seq) ==
    SeedRole(SeedRole(SeedRole(Seeded(ro, seq), "Manager", MANAGER),
                      "Asst. Manager", ASST_MANAGER),
             "General Employee", GENERAL_EMPLOYEE)

(* UPDATE employees e SET role_id = r.id FROM employee_roles r JOIN         *)
(* branches b ON r.company_id = b.company_id WHERE e.branch_id = b.id AND  *)
(* r.role_name = 'General Employee' AND e.role_id IS NULL                  *)
DefaultRoleOfRoleless(em, ro) ==
    [e \in DOMAIN em |->
        IF /\ em[e].role_id = NULL
           /\ em[e].branch_id \in RowsOf(branches)
           /\ \E r \in DOMAIN ro :
                 /\ ro[r].role_name = "General Employee"
                 /\ ro[r].company_id = branches[em[e].branch_id].company_id
        THEN [em[e] EXCEPT !.role_id =
                 CHOOSE r \in DOMAIN ro :
                     /\ ro[r].role_name = "General Employee"
                     /\ ro[r].company_id = branches[em[e].branch_id].company_id]
        ELSE em[e]]

(* The CREATE TABLE IF NOT EXISTS statements change nothing once the       *)
(* tables exist.  The statements run in one transaction that conn.commit() *)
(* ends; a row the UNIQUE constraint rejects raises before the commit and  *)
(* nothing is kept but the keys taken from the sequence.                   *)
init_db ==
    LET t == SeedDefaultRoles(employee_roles, role_seq) IN
    /\ t.seq <= MaxRoleSeq
    /\ role_seq' = t.seq
    /\ IF RoleNamesUnique(t.ro)
       THEN /\ employee_roles' = t.ro
            /\ employees' = DefaultRoleOfRoleless(employees, t.ro)
            /\ last' = Call("init_db", NULL, NULL, TRUE)
       ELSE /\ UNCHANGED <<employee_roles, employees>>
            /\ last' = Call("init_db", NULL, NULL, FALSE)
    /\ UNCHANGED <<companies, branches, tasks, task_assignments, task_seq>>
    /\ UNCHANGED <<messages, sessions>>

(* SELECT COUNT FROM employee_roles WHERE company_id = :company_id; when   *)
(* it is 0, the three default roles are inserted and committed             *)
initialize_default_roles(company_id) ==
    /\ company_id \in RowsOf(companies)
    /\ role_seq + 3 <= MaxRoleSeq
    /\ IF \E r \in RowsOf(employee_roles) : employee_roles[r].company_id = company_id
       THEN /\ UNCHANGED <<employee_roles, role_seq>>
            /\ last' = Call("initialize_default_roles", company_id, NULL, FALSE)
       ELSE /\ employee_roles' =
                  Merge(DefaultRoles(company_id, role_seq + 1), employee_roles)
            /\ role_seq' = role_seq + 3
            /\ last' = Call("initialize_default_roles", company_id, NULL, TRUE)
    /\ UNCHANGED <<companies, branches, employees, tasks, task_assignments,
                   task_seq>>
    /\ UNCHANGED <<messages, sessions>>

(* ---------------- specification: the task/assignment engine ------------ *)
(* The store once one company was added, init_db seeded its three roles    *)
(* and the company has a main branch and one sub-branch; no employee and   *)
(* no task yet.                                                            *)
InitTask ==
    /\ companies = [c \in {1} |-> [is_active |-> TRUE]]
    /\ branches = [b \in {1, 2} |->
                     IF b = 1 THEN NewBranch(1, NULL, TRUE)
                     ELSE NewBranch(1, 1, FALSE)]
    /\ employee_roles = DefaultRoles(1, 1)
    /\ employees = Empty
    /\ tasks = Empty
    /\ task_assignments = Empty
    /\ role_seq = 3
    /\ task_seq = 0
    /\ messages = Empty
    /\ sessions = NoSessions
    /\ last = Call("init_db", NULL, NULL, TRUE)

TaskIds == 1..MaxTasks

(* the roles the branch employees of this specification are hired with:   *)
(* Asst. Manager (the most junior level with the override) and General    *)
(* Employee                                                                *)
BranchStaffRoles ==
    {r \in RowsOf(employee_roles) : employee_roles[r].role_level >= ASST_MANAGER}

NextTask ==
    \/ \E b \in RowsOf(branches), r \in BranchStaffRoles : add_employee(b, r)
    \/ \E e \in RowsOf(employees), a \in BOOLEAN : update_employee_status(e, a)
    \/ \E c \in RowsOf(companies), b \in RowsOf(branches) : create_task(c, b, NULL)
    \/ \E c \in RowsOf(companies), e \in RowsOf(employees) : create_task(c, NULL, e)
    \/ \E t \in TaskIds, e \in RowsOf(employees), now \in Times :
          mark_task_completed(t, e, now)
    \/ \E t \in TaskIds : reopen_task(t)
    \/ \E t \in TaskIds : delete_task(t)

SpecTask == InitTask /\ [][NextTask]_vars

(* -------- specification: the task engine and its progress view --------- *)
NextProgress ==
    \/ NextTask
    \/ \E t \in TaskIds : get_branch_task_progress(t)

SpecProgress == InitTask /\ [][NextProgress]_vars

(* ------------- specification: activation and deactivation -------------- *)
(* The store once two companies were added and init_db seeded the roles of *)
(* each after it was added; no branch and no employee yet.                 *)
InitStatus ==
    /\ companies = [c \in {1, 2} |-> [is_active |-> TRUE]]
    /\ branches = Empty
    /\ employee_roles = Merge(DefaultRoles(1, 1), DefaultRoles(2, 4))
    /\ employees = Empty
    /\ tasks = Empty
    /\ task_assignments = Empty
    /\ role_seq = 6
    /\ task_seq = 0
    /\ messages = Empty
    /\ sessions = NoSessions
    /\ last = Call("init_db", NULL, NULL, TRUE)

(* SELECT id FROM employee_roles WHERE role_level = :role_level AND        *)
(* company_id = (SELECT company_id FROM branches WHERE id = :branch_id),   *)
(* with role_level the General Employee level: the role the branch         *)
(* managers' hiring form gives a new employee                              *)
GeneralRoleOfBranch(branch_id) ==
    CHOOSE r \in RowsOf(employee_roles) :
        /\ employee_roles[r].role_level = GENERAL_EMPLOYEE
        /\ employee_roles[r].company_id = branches[branch_id].company_id

NextStatus ==
    \/ \E c \in RowsOf(companies) : create_main_branch(c)
    \/ \E c \in RowsOf(companies) :
          \E p \in CompanyBranchIds(c) : create_sub_branch(c, p)
    \/ \E b \in RowsOf(branches) : add_employee(b, GeneralRoleOfBranch(b))
    \/ \E c \in RowsOf(companies), a \in BOOLEAN : update_company_status(c, a)
    \/ \E b \in RowsOf(branches), a \in BOOLEAN : update_branch_status(b, a)
    \/ \E e \in RowsOf(employees), a \in BOOLEAN : update_employee_status(e, a)

SpecStatus == InitStatus /\ [][NextStatus]_vars

(* -------------------- specification: the branch tree ------------------- *)
(* the keys a caller can pass as a branch: the rows, a key that is no row, *)
(* and none                                                                *)
BranchKeys == 0..(MaxBranches + 1)

(* BranchModel.create_main_branch, create_sub_branch and update_branch in  *)
(* the store of InitStatus                                                 *)
NextBranch ==
    \/ \E c \in RowsOf(companies) : create_main_branch(c)
    \/ \E c \in RowsOf(companies), p \in RowsOf(branches) : create_sub_branch(c, p)
    \/ \E b \in RowsOf(branches), p \in BranchKeys : update_branch(b, p)

SpecBranch == InitStatus /\ [][NextBranch]_vars

(* -------------------- specification: role deletion --------------------- *)
(* The store once one company was added, init_db seeded its three roles    *)
(* and the company has its main branch; no employee yet.                   *)
InitRole ==
    /\ companies = [c \in {1} |-> [is_active |-> TRUE]]
    /\ branches = [b \in {1} |-> NewBranch(1, NULL, TRUE)]
    /\ employee_roles = DefaultRoles(1, 1)
    /\ employees = Empty
    /\ tasks = Empty
    /\ task_assignments = Empty
    /\ role_seq = 3
    /\ task_seq = 0
    /\ messages = Empty
    /\ sessions = NoSessions
    /\ last = Call("init_db", NULL, NULL, TRUE)

RoleIds == 1..MaxRoles

(* role levels a company gives a role of its own: above Manager and below  *)
(* General Employee                                                        *)
CustomLevels == {0, 4}

NextRole ==
    \/ \E b \in RowsOf(branches), r \in RowsOf(employee_roles) : add_employee(b, r)
    \/ \E c \in RowsOf(companies), l \in CustomLevels : create_role(c, "Supervisor", l)
    \/ \E e \in RowsOf(employees), r \in RowsOf(employee_roles) :
          update_employee_role(e, r)
    \/ \E r \in RoleIds, p \in RoleIds : delete_role(r, p)

SpecRole == InitRole /\ [][NextRole]_vars

(* ----------------------- specification: role seed ---------------------- *)
(* The store after the first run of init_db: the tables exist and are      *)
(* empty.  The administrator adds companies; init_db runs at the start of  *)
(* every run of the script; roles are added and deleted through RoleModel. *)
InitSeed ==
    /\ companies = Empty
    /\ branches = Empty
    /\ employee_roles = Empty
    /\ employees = Empty
    /\ tasks = Empty
    /\ task_assignments = Empty
    /\ messages = Empty
    /\ role_seq = 0
    /\ task_seq = 0
    /\ sessions = NoSessions
    /\ last = Call("init_db", NULL, NULL, TRUE)

NextSeed ==
    \/ add_company
    \/ init_db
    \/ \E c \in RowsOf(companies) : initialize_default_roles(c)
    \/ \E c \in RowsOf(companies), l \in CustomLevels : create_role(c, "Supervisor", l)
    \/ \E r \in RowsOf(employee_roles), p \in RowsOf(employee_roles) :
          delete_role(r, p)

SpecSeed == InitSeed /\ [][NextSeed]_vars

(* ---------- specification: transactions, statement by statement -------- *)
(* The store once one company was added, init_db seeded its three roles,   *)
(* the company has its main branch and the branch hired two General        *)
(* Employees; no task yet.                                                 *)
InitTxn ==
    /\ companies = [c \in {1} |-> [is_active |-> TRUE]]
    /\ branches = [b \in {1} |-> NewBranch(1, NULL, TRUE)]
    /\ employee_roles = DefaultRoles(1, 1)
    /\ employees = [e \in {1, 2} |->
                       [branch_id |-> 1, role_id |-> 3, is_active |-> TRUE]]
    /\ tasks = Empty
    /\ task_assignments = Empty
    /\ messages = Empty
    /\ role_seq = 3
    /\ task_seq = 0
    /\ sessions = NoSessions
    /\ last = Call("add_employee", 2, NULL, TRUE)

(* The connections run create_task, delete_role and update_branch_status   *)
(* statement by statement, next to each other.  The tables are the         *)
(* committed rows: what a statement of any other session reads.            *)
NextTxn ==
    \/ \E s \in Sessions, c \in RowsOf(companies), b \in RowsOf(branches) :
          create_task_insert_task(s, c, b, NULL)
    \/ \E s \in Sessions : create_task_select_employees(s)
    \/ \E s \in Sessions, e \in RowsOf(employees) :
          create_task_insert_assignment(s, e)
    \/ \E s \in Sessions, r \in RowsOf(employee_roles),
          p \in RowsOf(employee_roles) :
          delete_role_update_employees(s, r, p)
    \/ \E s \in Sessions : delete_role_delete_role(s)
    \/ \E s \in Sessions, b \in RowsOf(branches), a \in BOOLEAN :
          update_branch_status_update_branch(s, b, a)
    \/ \E s \in Sessions : update_branch_status_update_employees(s)
    \/ \E s \in Sessions : commit(s)

SpecTxn == InitTxn /\ [][NextTxn]_vars

(* ------- specification: concurrent calls of mark_task_completed -------- *)
(* The store once a company with one branch hired two General Employees    *)
(* and created one task for the branch: the task is open and each of the   *)
(* two holds an incomplete assignment of it.                               *)
InitRace ==
    /\ companies = [c \in {1} |-> [is_active |-> TRUE]]
    /\ branches = [b \in {1} |-> NewBranch(1, NULL, TRUE)]
    /\ employee_roles = DefaultRoles(1, 1)
    /\ employees = [e \in {1, 2} |->
                       [branch_id |-> 1, role_id |-> 3, is_active |-> TRUE]]
    /\ tasks = [t \in {1} |-> NewTask(1, 1, NULL)]
    /\ task_assignments = [k \in {<<1, 1>>, <<1, 2>>} |-> NewAssignment]
    /\ messages = Empty
    /\ role_seq = 3
    /\ task_seq = 1
    /\ sessions = NoSessions
    /\ last = Call("create_task", 1, NULL, TRUE)

(* no open transaction wrote the task row or an assignment row of the task *)
TaskRowsFree(task_id) ==
    \A s \in Sessions :
        /\ task_id \notin DOMAIN sessions[s].w.tasks
        /\ AssignmentsOf(sessions[s].w.task_assignments, task_id) = {}

NextRace ==
    \/ \E s \in Sessions, t \in RowsOf(tasks), e \in RowsOf(employees),
          now \in Times : mark_task_completed_select_task(s, t, e, now)
    \/ \E s \in Sessions : mark_task_completed_update_assignment(s)
    \/ \E s \in Sessions : mark_task_completed_select_role(s)
    \/ \E s \in Sessions : mark_task_completed_all_complete(s)
    \/ \E s \in Sessions : mark_task_completed_update_task(s)
    \/ \E s \in Sessions : commit(s)
    \/ \E t \in RowsOf(tasks) : TaskRowsFree(t) /\ reopen_task(t)

SpecRace == InitRace /\ [][NextRace]_vars

(* ------------- specification: every way to create a task --------------- *)
(* The company's form (a branch or an employee, never both), the Assign    *)
(* Task form of the branch managers and add_task, in the store of          *)
(* InitTask, whose branches hire employees of any role.                    *)
NextForms ==
    \/ \E b \in RowsOf(branches), r \in RowsOf(employee_roles) : add_employee(b, r)
    \/ \E c \in RowsOf(companies), b \in RowsOf(branches) : create_task(c, b, NULL)
    \/ \E c \in RowsOf(companies), e \in RowsOf(employees) : create_task(c, NULL, e)
    \/ \E a \in RowsOf(employees), e \in RowsOf(employees) :
          manage_employee_tasks(a, e)
    \/ \E e \in RowsOf(employees) : add_task(e)

SpecForms == InitTask /\ [][NextForms]_vars

(* -------------------- specification: authentication -------------------- *)
(* The store once two companies were added with their credentials, each    *)
(* has its main branch and one General Employee.  Usernames are unique     *)
(* among the companies and among the employees; the employee of company 2  *)
(* was given the username and password that company 1 uses.                *)
InitAuth ==
    /\ companies = [c \in {1, 2} |->
                       [is_active |-> TRUE,
                        username |-> IF c = 1 THEN "u1" ELSE "u2",
                        password |-> IF c = 1 THEN "p1" ELSE "p2"]]
    /\ branches = [b \in {1, 2} |-> NewBranch(b, NULL, TRUE)]
    /\ employee_roles = Merge(DefaultRoles(1, 1), DefaultRoles(2, 4))
    /\ employees = [e \in {1, 2} |->
                       [branch_id |-> e, role_id |-> 3 * e, is_active |-> TRUE,
                        username |-> IF e = 1 THEN "u3" ELSE "u1",
                        password |-> IF e = 1 THEN "p3" ELSE "p1"]]
    /\ tasks = Empty
    /\ task_assignments = Empty
    /\ messages = Empty
    /\ role_seq = 6
    /\ task_seq = 0
    /\ sessions = NoSessions
    /\ last = Call("add_employee", 2, NULL, TRUE)

(* what is typed into the login form *)
Usernames == {"admin", "u1", "u2", "u3"}

Passwords == {"secret", "p1", "p2", "p3"}

NextAuth ==
    \/ \E c \in RowsOf(companies), a \in BOOLEAN : update_company_status(c, a)
    \/ \E b \in RowsOf(branches), a \in BOOLEAN : update_branch_status(b, a)
    \/ \E e \in RowsOf(employees), a \in BOOLEAN : update_employee_status(e, a)
    \/ \E u \in Usernames, p \in Passwords : authenticate(u, p)

SpecAuth == InitAuth /\ [][NextAuth]_vars

(* ----------------------- specification: messages ----------------------- *)
MessageTexts == {"hello", "thanks"}

(* the company's form sends to the administrator (id 0), the               *)
(* administrator's form to an active company; the administrator marks one  *)
(* message read with its button, a company all of the administrator's by   *)
(* opening its history.  The store starts as in InitStatus.                *)
NextMsg ==
    \/ \E c \in RowsOf(companies), x \in MessageTexts :
          send_message("company", c, "admin", 0, x)
    \/ \E c \in RowsOf(companies), x \in MessageTexts :
          companies[c].is_active /\ send_message("admin", 0, "company", c, x)
    \/ \E m \in MessagesForAdmin : ~messages[m].is_read /\ mark_as_read(m)
    \/ \E c \in RowsOf(companies) : display_message_history(c)

SpecMsg == InitStatus /\ [][NextMsg]_vars

(* ---------------------- specification: permissions --------------------- *)
(* role_level is an INTEGER column and create_role stores any level given  *)
PermLevels == 0..MaxLevel

NextPerm ==
    \/ \E u \in PermLevels :
          permission_check("can_create_employees", u, NULL, can_create_employees(u))
    \/ \E u, t \in PermLevels :
          permission_check("can_assign_tasks_to", u, t, can_assign_tasks_to(u, t))
    \/ \E u, t \in PermLevels :
          permission_check("can_view_reports_of", u, t, can_view_reports_of(u, t))
    \/ \E u, t \in PermLevels :
          permission_check("can_deactivate_role", u, t, can_deactivate_role(u, t))

SpecPerm == InitRole /\ [][NextPerm]_vars

(* ---------------------- specification: date ranges --------------------- *)
(* One company with its main branch and default roles; a report screen    *)
(* was opened on the first day of MinYear.                                 *)
InitDates ==
    /\ companies = [c \in {1} |-> [is_active |-> TRUE]]
    /\ branches = [b \in {1} |-> NewBranch(1, NULL, TRUE)]
    /\ employee_roles = DefaultRoles(1, 1)
    /\ employees = Empty
    /\ tasks = Empty
    /\ task_assignments = Empty
    /\ messages = Empty
    /\ role_seq = 3
    /\ task_seq = 0
    /\ sessions = NoSessions
    /\ last = DateCall("get_date_range_from_filter", "Today", Date(MinYear, 1, 1),
                       GetDateRangeFromFilter("Today", Date(MinYear, 1, 1)))

(* datetime.date.today(): the day of the call before or the day after it,  *)
(* up to the last day of MaxYear                                           *)
Todays ==
    {FromOrdinal(n) : n \in {o \in {ToOrdinal(last.arg), ToOrdinal(last.arg) + 1} :
                                o <= DaysBeforeYear(MaxYear + 1)}}

NextDates ==
    \/ \E f \in {"Today", "This Week", "This Month", "This Year", "All Reports"},
          today \in Todays : get_date_range_from_filter(f, today)
    \/ \E f \in {"Today", "This Week", "This Month", "Last Month", "Last 3 Months"},
          today \in Todays : view_branch_employee_reports(f, today)

SpecDates == InitDates /\ [][NextDates]_vars

(* ======================================================================= *)
(* Claims about the task/assignment engine, checked under SpecTask         *)
(* ======================================================================= *)
IsCall(c, op) == c.op = op

(* the employees that hold an assignment row of a task *)
Assignees(ta, task_id) == {k[2] : k \in AssignmentsOf(ta, task_id)}

IncompleteOf(ta, task_id) ==
    {k \in AssignmentsOf(ta, task_id) : ~ta[k].is_completed}

OpenTask(task_id) ==
    task_id \in RowsOf(tasks) /\ ~tasks[task_id].is_completed

(* C1: a branch-targeted create_task (branch given, no employee) creates   *)
(* exactly one incomplete assignment row per employee that is active in    *)
(* that branch at creation time; assignment rows appear only in a          *)
(* create_task call and only for the task it creates, so an employee added *)
(* by a later add_employee holds no assignment of a task that existed.     *)
Thm_C1 ==
    [][ /\ ( /\ IsCall(last', "create_task")
             /\ tasks'[last'.id].branch_id # NULL
             /\ tasks'[last'.id].employee_id = NULL )
           => /\ Assignees(task_assignments', last'.id) =
                   {e \in RowsOf(employees) :
                       /\ employees[e].branch_id = tasks'[last'.id].branch_id
                       /\ employees[e].is_active = TRUE}
              /\ \A k \in AssignmentsOf(task_assignments', last'.id) :
                   /\ task_assignments'[k].is_completed = FALSE
                   /\ task_assignments'[k].completed_at = NULL
        /\ \A k \in DOMAIN task_assignments' \ DOMAIN task_assignments :
              /\ IsCall(last', "create_task")
              /\ k[1] = last'.id
              /\ k[1] \notin RowsOf(tasks)
        /\ IsCall(last', "add_employee")
           => /\ last'.id \notin RowsOf(employees)
              /\ \A k \in DOMAIN task_assignments' : k[2] # last'.id
      ]_vars

(* an employee was added to a branch that has a task with assignments, and *)
(* holds none of them                                                      *)
Witness_C1 ==
    /\ IsCall(last, "add_employee")
    /\ \E t \in RowsOf(tasks) :
          /\ tasks[t].branch_id = employees[last.id].branch_id
          /\ tasks[t].employee_id = NULL
          /\ Assignees(task_assignments, t) # {}
          /\ last.id \notin Assignees(task_assignments, t)

(* C2: mark_task_completed by any employee on a task that is already       *)
(* complete returns true and leaves the task row and every assignment row  *)
(* as they were.                                                           *)
Thm_C2 ==
    [][ ( /\ IsCall(last', "mark_task_completed")
          /\ last'.id \in RowsOf(tasks)
          /\ tasks[last'.id].is_completed )
        => /\ last'.flag = TRUE
           /\ tasks' = tasks
           /\ task_assignments' = task_assignments
      ]_vars

(* the call returned true for a task that another employee had completed,  *)
(* while the caller's own assignment of it is still incomplete             *)
Witness_C2 ==
    /\ IsCall(last, "mark_task_completed")
    /\ last.flag
    /\ last.id \in RowsOf(tasks)
    /\ tasks[last.id].is_completed
    /\ tasks[last.id].completed_by_id # last.arg
    /\ <<last.id, last.arg>> \in DOMAIN task_assignments
    /\ ~task_assignments[<<last.id, last.arg>>].is_completed

(* C3: manager override.  On an open branch task with more than one        *)
(* incomplete assignment, one mark_task_completed by an actor of role      *)
(* level <= 2 returns true and completes the task with completed_by =      *)
(* actor; the assignment rows of the other employees are not written, so   *)
(* some assignment is still incomplete.                                    *)
Thm_C3 ==
    [][ ( /\ IsCall(last', "mark_task_completed")
          /\ OpenTask(last'.id)
          /\ tasks[last'.id].branch_id # NULL
          /\ Cardinality(IncompleteOf(task_assignments, last'.id)) > 1
          /\ HasRoleRow(last'.arg)
          /\ EmployeeRoleLevel(last'.arg) <= 2 )
        => /\ last'.flag = TRUE
           /\ tasks'[last'.id].is_completed
           /\ tasks'[last'.id].completed_by_id = last'.arg
           /\ tasks'[last'.id].completed_at \in Times
           /\ \A k \in AssignmentsOf(task_assignments, last'.id) :
                 k[2] # last'.arg => task_assignments'[k] = task_assignments[k]
           /\ IncompleteOf(task_assignments', last'.id) # {}
      ]_vars

(* an Asst. Manager or Manager closed a branch task with his own           *)
(* assignment while a colleague's assignment is incomplete                 *)
Witness_C3 ==
    /\ IsCall(last, "mark_task_completed")
    /\ last.flag
    /\ last.id \in RowsOf(tasks)
    /\ tasks[last.id].branch_id # NULL
    /\ tasks[last.id].is_completed
    /\ tasks[last.id].completed_by_id = last.arg
    /\ EmployeeRoleLevel(last.arg) <= 2
    /\ <<last.id, last.arg>> \in DOMAIN task_assignments
    /\ task_assignments[<<last.id, last.arg>>].is_completed
    /\ \E k \in IncompleteOf(task_assignments, last.id) : k[2] # last.arg

(* C4: all-complete convergence.  On an open branch task with at least one *)
(* assignment whose assignees all have role level 3, a call by an assignee *)
(* completes his assignment; the task is complete after the call exactly   *)
(* when no assignment is incomplete after it, the call returns that, the   *)
(* closing call is recorded as completed_by, and a call that leaves an     *)
(* assignment incomplete leaves the task row as it was.                    *)
Thm_C4 ==
    [][ ( /\ IsCall(last', "mark_task_completed")
          /\ OpenTask(last'.id)
          /\ tasks[last'.id].branch_id # NULL
          /\ last'.arg \in Assignees(task_assignments, last'.id)
          /\ \A e \in Assignees(task_assignments, last'.id) :
                HasRoleRow(e) /\ EmployeeRoleLevel(e) = GENERAL_EMPLOYEE )
        => LET done == IncompleteOf(task_assignments', last'.id) = {} IN
           /\ task_assignments'[<<last'.id, last'.arg>>].is_completed
           /\ tasks'[last'.id].is_completed = done
           /\ last'.flag = done
           /\ done => tasks'[last'.id].completed_by_id = last'.arg
           /\ ~done => tasks'[last'.id] = tasks[last'.id]
      ]_vars

(* the last of two General Employees completed his assignment and that     *)
(* call closed the task                                                    *)
Witness_C4 ==
    /\ IsCall(last, "mark_task_completed")
    /\ last.flag
    /\ last.id \in RowsOf(tasks)
    /\ tasks[last.id].branch_id # NULL
    /\ tasks[last.id].is_completed
    /\ tasks[last.id].completed_by_id = last.arg
    /\ Cardinality(Assignees(task_assignments, last.id)) > 1
    /\ IncompleteOf(task_assignments, last.id) = {}
    /\ \A e \in Assignees(task_assignments, last.id) :
          EmployeeRoleLevel(e) = GENERAL_EMPLOYEE

(* C5: reopen_task on a complete task leaves the task incomplete with      *)
(* completed_at and completed_by_id null and every assignment of the task  *)
(* incomplete with completed_at null; no row is added or removed and the   *)
(* assignments of other tasks are as they were.                            *)
Thm_C5 ==
    [][ ( /\ IsCall(last', "reopen_task")
          /\ last'.id \in RowsOf(tasks)
          /\ tasks[last'.id].is_completed )
        => /\ tasks'[last'.id].is_completed = FALSE
           /\ tasks'[last'.id].completed_at = NULL
           /\ tasks'[last'.id].completed_by_id = NULL
           /\ DOMAIN task_assignments' = DOMAIN task_assignments
           /\ \A k \in DOMAIN task_assignments :
                 IF k[1] = last'.id
                 THEN /\ task_assignments'[k].is_completed = FALSE
                      /\ task_assignments'[k].completed_at = NULL
                 ELSE task_assignments'[k] = task_assignments[k]
      ]_vars

(* a complete task that has assignments was reopened while an assignment   *)
(* of another task is complete                                             *)
Witness_C5 ==
    /\ IsCall(last, "reopen_task")
    /\ last.flag
    /\ AssignmentsOf(task_assignments, last.id) # {}
    /\ \E k \in DOMAIN task_assignments :
          k[1] # last.id /\ task_assignments[k].is_completed

(* C9: on an open direct task (no branch reference) mark_task_completed by *)
(* the designated employee sets the flag, a timestamp and completed_by =   *)
(* actor and returns true; by any other employee it returns false and      *)
(* leaves the task row as it was.                                          *)
Thm_C9 ==
    [][ ( /\ IsCall(last', "mark_task_completed")
          /\ OpenTask(last'.id)
          /\ tasks[last'.id].branch_id = NULL )
        => IF tasks[last'.id].employee_id = last'.arg
           THEN /\ last'.flag = TRUE
                /\ tasks'[last'.id].is_completed
                /\ tasks'[last'.id].completed_at \in Times
                /\ tasks'[last'.id].completed_by_id = last'.arg
           ELSE /\ last'.flag = FALSE
                /\ tasks'[last'.id] = tasks[last'.id]
      ]_vars

(* a call on an open direct task of another employee was refused, and a    *)
(* direct task is complete by its designated employee                      *)
Witness_C9 ==
    /\ IsCall(last, "mark_task_completed")
    /\ ~last.flag
    /\ OpenTask(last.id)
    /\ tasks[last.id].branch_id = NULL
    /\ tasks[last.id].employee_id # last.arg
    /\ \E t \in RowsOf(tasks) :
          /\ tasks[t].branch_id = NULL
          /\ tasks[t].is_completed
          /\ tasks[t].completed_by_id = tasks[t].employee_id

(* C10: the boolean mark_task_completed returns is the completion flag of  *)
(* the task in the store right after the call, false when the task does    *)
(* not exist.                                                              *)
Thm_C10 ==
    IsCall(last, "mark_task_completed")
    => last.flag = (last.id \in RowsOf(tasks) /\ tasks[last.id].is_completed)

(* the call closed a branch task through the all-complete check: the       *)
(* caller is a General Employee and the task is complete by him            *)
Witness_C10 ==
    /\ IsCall(last, "mark_task_completed")
    /\ last.flag
    /\ last.id \in RowsOf(tasks)
    /\ tasks[last.id].branch_id # NULL
    /\ tasks[last.id].completed_by_id = last.arg
    /\ EmployeeRoleLevel(last.arg) = GENERAL_EMPLOYEE

(* ======================================================================= *)
(* Claims about the status cascade, checked under SpecStatus               *)
(* ======================================================================= *)
BranchesOfCompany(br, company_id) ==
    {b \in DOMAIN br : br[b].company_id = company_id}

(* C6: after update_company_status(c, False) company c, every branch of c  *)
(* and every employee whose branch belongs to c are inactive; every other  *)
(* company, branch and employee row is as it was.                          *)
Thm_C6 ==
    [][ ( IsCall(last', "update_company_status") /\ last'.flag = FALSE )
        => LET c == last'.id
               own == BranchesOfCompany(branches, c)
           IN
           /\ DOMAIN companies' = DOMAIN companies
           /\ DOMAIN branches' = DOMAIN branches
           /\ DOMAIN employees' = DOMAIN employees
           /\ companies'[c].is_active = FALSE
           /\ \A d \in RowsOf(companies) : d # c => companies'[d] = companies[d]
           /\ \A b \in RowsOf(branches) :
                 IF b \in own
                 THEN branches'[b] = [branches[b] EXCEPT !.is_active = FALSE]
                 ELSE branches'[b] = branches[b]
           /\ \A e \in RowsOf(employees) :
                 IF employees[e].branch_id \in own
                 THEN employees'[e] = [employees[e] EXCEPT !.is_active = FALSE]
                 ELSE employees'[e] = employees[e]
      ]_vars

(* a company was deactivated with its branch and its employee, while the   *)
(* other company, its branch and its employee are active                   *)
Witness_C6 ==
    /\ IsCall(last, "update_company_status")
    /\ last.flag = FALSE
    /\ ~companies[last.id].is_active
    /\ \E e \in RowsOf(employees) :
          /\ branches[employees[e].branch_id].company_id = last.id
          /\ ~employees[e].is_active
          /\ ~branches[employees[e].branch_id].is_active
    /\ \E e \in RowsOf(employees) :
          /\ branches[employees[e].branch_id].company_id # last.id
          /\ employees[e].is_active
          /\ branches[employees[e].branch_id].is_active
          /\ companies[branches[employees[e].branch_id].company_id].is_active

(* C7 as stated: update_branch_status(b, True) sets branch b active and    *)
(* leaves the active flag of every employee of b unchanged.                *)
Cex_C7 ==
    [][ ( IsCall(last', "update_branch_status") /\ last'.flag = TRUE )
        => /\ branches'[last'.id].is_active = TRUE
           /\ \A e \in RowsOf(employees) :
                 employees[e].branch_id = last'.id
                 => employees'[e].is_active = employees[e].is_active
      ]_vars

(* C7 as amended: the cascade is the same in both directions.              *)
(* update_branch_status(b, a) sets the flag of branch b and of every       *)
(* employee of b to a, for a = True as for a = False, so the employees an  *)
(* earlier update_branch_status(b, False) deactivated are active again;    *)
(* the employees of other branches and the other branches are unchanged.   *)
Thm_C7 ==
    [][ IsCall(last', "update_branch_status")
        => /\ DOMAIN branches' = DOMAIN branches
           /\ DOMAIN employees' = DOMAIN employees
           /\ \A b \in RowsOf(branches) :
                 IF b = last'.id
                 THEN branches'[b] = [branches[b] EXCEPT !.is_active = last'.flag]
                 ELSE branches'[b] = branches[b]
           /\ \A e \in RowsOf(employees) :
                 IF employees[e].branch_id = last'.id
                 THEN employees'[e] = [employees[e] EXCEPT !.is_active = last'.flag]
                 ELSE employees'[e] = employees[e]
           /\ companies' = companies
      ]_vars

(* a branch was reactivated and its employee is active, in a company that  *)
(* has a second branch whose employee is inactive                          *)
Witness_C7 ==
    /\ IsCall(last, "update_branch_status")
    /\ last.flag = TRUE
    /\ branches[last.id].is_active
    /\ \E e \in RowsOf(employees) :
          employees[e].branch_id = last.id /\ employees[e].is_active
    /\ \E e \in RowsOf(employees) :
          employees[e].branch_id # last.id /\ ~employees[e].is_active

(* ======================================================================= *)
(* Claims about role deletion, checked under SpecRole                      *)
(* ======================================================================= *)
NoDanglingRole(em, ro) ==
    \A e \in DOMAIN em : em[e].role_id \in DOMAIN ro

(* C8 as stated: after delete_role(r, replacement), for every pair of role *)
(* ids including replacement = r, every employee that referenced r         *)
(* references the replacement, r does not exist and no employee references *)
(* a role that does not exist.                                             *)
Cex_C8 ==
    [][ IsCall(last', "delete_role")
        => /\ \A e \in RoleHolders(employees, last'.id) :
                 employees'[e].role_id = last'.arg
           /\ last'.id \notin RowsOf(employee_roles')
           /\ NoDanglingRole(employees', employee_roles')
      ]_vars

(* C8 as amended: after delete_role(r, replacement) no employee references *)
(* a role that does not exist.  When no employee references r, or the      *)
(* replacement is an existing role other than r, every employee that       *)
(* referenced r references the replacement, r does not exist and the other *)
(* employees and roles are as they were.  When some employee references r  *)
(* and the replacement is r itself or no existing role, the store rejects  *)
(* the call and roles and employees are as they were: r still exists.      *)
Thm_C8 ==
    [][ IsCall(last', "delete_role")
        => LET r == last'.id
               p == last'.arg
               holders == RoleHolders(employees, r)
           IN
           /\ NoDanglingRole(employees', employee_roles')
           /\ ( holders = {} \/ (p # r /\ p \in RowsOf(employee_roles)) )
              => /\ last'.flag = TRUE
                 /\ \A e \in holders :
                       employees'[e] = [employees[e] EXCEPT !.role_id = p]
                 /\ \A e \in RowsOf(employees) \ holders :
                       employees'[e] = employees[e]
                 /\ DOMAIN employees' = DOMAIN employees
                 /\ RowsOf(employee_roles') = RowsOf(employee_roles) \ {r}
                 /\ \A q \in RowsOf(employee_roles') :
                       employee_roles'[q] = employee_roles[q]
           /\ ( holders # {} /\ (p = r \/ p \notin RowsOf(employee_roles)) )
              => /\ last'.flag = FALSE
                 /\ employees' = employees
                 /\ employee_roles' = employee_roles
      ]_vars

(* a role that two employees held was deleted and both hold the            *)
(* replacement                                                             *)
Witness_C8 ==
    /\ IsCall(last, "delete_role")
    /\ last.flag
    /\ last.rows > 1
    /\ last.id \notin RowsOf(employee_roles)
    /\ last.arg \in RowsOf(employee_roles)
    /\ Cardinality(RoleHolders(employees, last.arg)) > 1

(* ======================================================================= *)
(* Claims about transactions, checked under SpecTxn                        *)
(* ======================================================================= *)
(* the committed rows: what a statement of any other session reads *)
Committed ==
    <<companies, branches, employee_roles, employees, tasks, task_assignments,
      messages>>

(* the step is the commit of the transaction of connection s *)
Commits(s, op) ==
    /\ sessions[s].op = op
    /\ sessions[s].pc = "commit"
    /\ sessions'[s].pc = "returned"

(* C11: create_task, delete_role and update_branch_status are each all or  *)
(* nothing for the other sessions.  A statement inside their block leaves  *)
(* the committed rows as they were; the commit makes the whole effect      *)
(* visible in one step: the task row with every assignment row of the      *)
(* fan-out, the reassignment of every holder with the removal of the role, *)
(* the flag of the branch with the flag of every employee of it.  No       *)
(* committed employee references a role that does not exist.               *)
Thm_C11 ==
    [][ /\ NoDanglingRole(employees', employee_roles')
        /\ \A s \in Sessions :
            LET c == sessions[s] IN
            /\ (sessions'[s] # c /\ c.pc # "commit") => Committed' = Committed
            /\ Commits(s, "create_task")
               => /\ c.id \notin RowsOf(tasks)
                  /\ AssignmentsOf(task_assignments, c.id) = {}
                  /\ c.id \in RowsOf(tasks')
                  /\ Assignees(task_assignments', c.id) = c.rows
            /\ Commits(s, "delete_role")
               => /\ c.rows # {} => c.id \in RowsOf(employee_roles)
                  /\ \A e \in c.rows : employees[e].role_id = c.id
                  /\ c.id \notin RowsOf(employee_roles')
                  /\ \A e \in c.rows : employees'[e].role_id = c.arg
            /\ Commits(s, "update_branch_status")
               => /\ branches'[c.id].is_active = c.flag
                  /\ \A e \in c.rows : employees'[e].is_active = c.flag
                  /\ \A e \in RowsOf(employees) \ c.rows :
                        employees'[e] = employees[e]
      ]_vars

(* one connection has inserted the task row and one of two assignment rows *)
(* of a fan-out while another has reassigned the holders of a role it is   *)
(* about to delete; the committed rows show neither                        *)
Witness_C11 ==
    \E s \in Sessions, o \in Sessions :
        /\ sessions[s].op = "create_task"
        /\ sessions[s].pc = "insert_assignment"
        /\ Cardinality(sessions[s].rows) > 1
        /\ Cardinality(DOMAIN sessions[s].w.task_assignments) = 1
        /\ sessions[s].id \notin RowsOf(tasks)
        /\ AssignmentsOf(task_assignments, sessions[s].id) = {}
        /\ sessions[o].op = "delete_role"
        /\ sessions[o].pc = "delete_role_row"
        /\ sessions[o].rows # {}
        /\ \A e \in sessions[o].rows : employees[e].role_id = sessions[o].id

(* ======================================================================= *)
(* Claims about concurrent completion, checked under SpecRace              *)
(* ======================================================================= *)
(* C12: the all-complete check of a mark_task_completed call does not see  *)
(* what a concurrent call wrote and has not committed: it finds all        *)
(* complete exactly when every assignment of the task that the call did    *)
(* not write itself is complete in the committed rows.  A call that        *)
(* returns false leaves the task row as it was.  So two level-3 employees  *)
(* who hold the last two incomplete assignments and run the call           *)
(* concurrently can both return false, and the task stays incomplete       *)
(* although every assignment is complete.                                  *)
Thm_C12 ==
    [][ \A s \in Sessions :
          LET c == sessions[s]
              counted == {k \in AssignmentsOf(task_assignments, c.id) :
                             /\ ~task_assignments[k].is_completed
                             /\ k \notin DOMAIN c.w.task_assignments}
          IN
          /\ ( /\ c.op = "mark_task_completed"
               /\ c.pc = "all_complete"
               /\ sessions'[s] # c )
             => /\ sessions'[s].pc = IF counted = {} THEN "update_task"
                                     ELSE "commit"
                /\ sessions'[s].flag = FALSE
          /\ ( Commits(s, "mark_task_completed") /\ ~c.flag )
             => /\ tasks' = tasks
                /\ last'.flag = FALSE
      ]_vars

(* both connections returned false from calls of the two General Employees *)
(* on the same task, the task is open and each of its assignments is       *)
(* complete                                                                *)
Witness_C12 ==
    \E a \in Sessions, b \in Sessions :
        /\ a # b
        /\ sessions[a].op = "mark_task_completed"
        /\ sessions[b].op = "mark_task_completed"
        /\ sessions[a].pc = "returned" /\ ~sessions[a].flag
        /\ sessions[b].pc = "returned" /\ ~sessions[b].flag
        /\ sessions[a].id = sessions[b].id
        /\ sessions[a].arg # sessions[b].arg
        /\ EmployeeRoleLevel(sessions[a].arg) = GENERAL_EMPLOYEE
        /\ EmployeeRoleLevel(sessions[b].arg) = GENERAL_EMPLOYEE
        /\ OpenTask(sessions[a].id)
        /\ Assignees(task_assignments, sessions[a].id) =
              {sessions[a].arg, sessions[b].arg}
        /\ IncompleteOf(task_assignments, sessions[a].id) = {}

(* ======================================================================= *)
(* Claims about tasks without assignments, checked under SpecTask          *)
(* ======================================================================= *)
(* C13 as stated: a branch task created while its branch has no active     *)
(* employee has no assignment row, and no mark_task_completed call by an   *)
(* employee of role level 3 turns the completion flag of a branch task     *)
(* without assignment rows true.                                           *)
Cex_C13 ==
    [][ /\ ( /\ IsCall(last', "create_task")
             /\ tasks'[last'.id].branch_id # NULL
             /\ tasks'[last'.id].employee_id = NULL
             /\ \A e \in RowsOf(employees) :
                   ~( /\ employees[e].branch_id = tasks'[last'.id].branch_id
                      /\ employees[e].is_active ) )
           => AssignmentsOf(task_assignments', last'.id) = {}
        /\ ( /\ IsCall(last', "mark_task_completed")
             /\ OpenTask(last'.id)
             /\ tasks[last'.id].branch_id # NULL
             /\ tasks[last'.id].employee_id = NULL
             /\ AssignmentsOf(task_assignments, last'.id) = {}
             /\ EmployeeRoleLevel(last'.arg) = GENERAL_EMPLOYEE )
           => ~tasks'[last'.id].is_completed
      ]_vars

(* ======================================================================= *)
(* Claims about the targets of a task, checked under SpecForms             *)
(* ======================================================================= *)
(* C14 as stated: no task row has both a branch reference and an employee  *)
(* reference, whichever operation created it.                              *)
Cex_C14 ==
    \A t \in RowsOf(tasks) :
        tasks[t].branch_id = NULL \/ tasks[t].employee_id = NULL

(* ======================================================================= *)
(* Claims about authentication, checked under SpecAuth                     *)
(* ======================================================================= *)
(* the companies and the employees that own a username and password *)
CompaniesWith(username, password) ==
    {c \in RowsOf(companies) :
        companies[c].username = username /\ companies[c].password = password}

EmployeesWith(username, password) ==
    {e \in RowsOf(employees) :
        employees[e].username = username /\ employees[e].password = password}

CompanyOf(employee_id) == branches[employees[employee_id].branch_id].company_id

(* C15: authenticate returns a company context only for an active company  *)
(* that owns the credentials, and an employee context only for an owner    *)
(* who is active in an active branch of an active company.  So while a     *)
(* company is inactive no call returns its context or that of one of its   *)
(* employees, and credentials that only it and employees of inactive       *)
(* companies own return no user.                                           *)
Thm_C15 ==
    IsCall(last, "authenticate")
    => LET u == last.user
           owners == CompaniesWith(last.id, last.arg)
           staff == EmployeesWith(last.id, last.arg)
       IN
       /\ u.user_type = "company"
          => u.id \in owners /\ companies[u.id].is_active
       /\ u.user_type = "employee"
          => /\ u.id \in staff
             /\ employees[u.id].is_active
             /\ branches[employees[u.id].branch_id].is_active
             /\ companies[CompanyOf(u.id)].is_active
             /\ u.company_id = CompanyOf(u.id)
       /\ ( /\ ~(last.id = admin_username /\ last.arg = admin_password)
            /\ \A c \in owners : ~companies[c].is_active
            /\ \A e \in staff : ~companies[CompanyOf(e)].is_active )
          => u = NoUser

(* the credentials of an employee who is active in an active branch were   *)
(* refused because his company is inactive                                 *)
Witness_C15 ==
    /\ IsCall(last, "authenticate")
    /\ last.user = NoUser
    /\ \E e \in EmployeesWith(last.id, last.arg) :
          /\ employees[e].is_active
          /\ branches[employees[e].branch_id].is_active
          /\ ~companies[CompanyOf(e)].is_active

(* C15 as stated: moreover, while a company is inactive, every username   *)
(* and password that it or one of its employees owns returns no user.      *)
Cex_C15 ==
    IsCall(last, "authenticate")
    => LET u == last.user IN
       /\ u.user_type = "company" => companies[u.id].is_active
       /\ u.user_type = "employee"
          => /\ employees[u.id].is_active
             /\ branches[employees[u.id].branch_id].is_active
             /\ companies[CompanyOf(u.id)].is_active
       /\ \A c \in RowsOf(companies) :
             ( /\ ~companies[c].is_active
               /\ \/ c \in CompaniesWith(last.id, last.arg)
                  \/ \E e \in EmployeesWith(last.id, last.arg) : CompanyOf(e) = c )
             => u = NoUser

(* ======================================================================= *)
(* Claims about messages, checked under SpecMsg                            *)
(* ======================================================================= *)
(* C16: display_message_history for company c marks every message from the *)
(* administrator to c read and changes nothing else: no message is added   *)
(* or removed, the messages c wrote and the messages of other companies    *)
(* keep their read flag, and every message keeps its text, sender and      *)
(* receiver.                                                               *)
Thm_C16 ==
    [][ IsCall(last', "display_message_history")
        => /\ DOMAIN messages' = DOMAIN messages
           /\ \A m \in RowsOf(messages) :
                 IF /\ messages[m].sender_type = "admin"
                    /\ messages[m].receiver_type = "company"
                    /\ messages[m].receiver_id = last'.id
                 THEN messages'[m] = [messages[m] EXCEPT !.is_read = TRUE]
                 ELSE messages'[m] = messages[m]
      ]_vars

(* a company opened its history: a message of the administrator to it is   *)
(* read, a message it wrote and a message of the administrator to another  *)
(* company are unread                                                      *)
Witness_C16 ==
    /\ IsCall(last, "display_message_history")
    /\ \E m \in RowsOf(messages) :
          /\ messages[m].sender_type = "admin"
          /\ messages[m].receiver_id = last.id
          /\ messages[m].is_read
    /\ \E m \in RowsOf(messages) :
          /\ messages[m].sender_type = "company"
          /\ messages[m].sender_id = last.id
          /\ ~messages[m].is_read
    /\ \E m \in RowsOf(messages) :
          /\ messages[m].sender_type = "admin"
          /\ messages[m].receiver_id # last.id
          /\ ~messages[m].is_read

(* ======================================================================= *)
(* Claims about the permission functions, checked under SpecPerm           *)
(* ======================================================================= *)
(* C17: for actor and target levels in 1..3, can_assign_tasks_to is true   *)
(* exactly when the actor is the Manager and the target is level 2 or 3,  *)
(* or the actor is the Asst. Manager and the target is level 3; it is      *)
(* never true for a target of the actor's level or a more senior one.      *)
Thm_C17 ==
    ( /\ IsCall(last, "can_assign_tasks_to")
      /\ last.id \in 1..3
      /\ last.arg \in 1..3 )
    => /\ last.flag <=> \/ last.id = 1 /\ last.arg >= 2
                        \/ last.id = 2 /\ last.arg = 3
       /\ last.arg <= last.id => ~last.flag

(* the Manager was asked about the Asst. Manager and may assign *)
Witness_C17 ==
    /\ IsCall(last, "can_assign_tasks_to")
    /\ last.id = 1
    /\ last.arg = 2
    /\ last.flag

(* C18 as stated: for an actor level outside 1..3 each of the four         *)
(* functions returns what it returns for actor level 3 and the same target *)
Cex_C18 ==
    last.id \notin 1..3
    => /\ IsCall(last, "can_create_employees")
          => last.flag = can_create_employees(GENERAL_EMPLOYEE)
       /\ IsCall(last, "can_assign_tasks_to")
          => last.flag = can_assign_tasks_to(GENERAL_EMPLOYEE, last.arg)
       /\ IsCall(last, "can_view_reports_of")
          => last.flag = can_view_reports_of(GENERAL_EMPLOYEE, last.arg)
       /\ IsCall(last, "can_deactivate_role")
          => last.flag = can_deactivate_role(GENERAL_EMPLOYEE, last.arg)

(* C18: for an actor level outside 1..3, can_assign_tasks_to and           *)
(* can_deactivate_role are false for every target, as for level 3;         *)
(* can_view_reports_of is true exactly for the actor's own level; and      *)
(* can_create_employees is true exactly when the level is at most 2, so    *)
(* false above 3 and true below 1.                                         *)
Thm_C18 ==
    last.id \notin 1..3
    => /\ IsCall(last, "can_assign_tasks_to") => ~last.flag
       /\ IsCall(last, "can_deactivate_role") => ~last.flag
       /\ IsCall(last, "can_view_reports_of") => (last.flag <=> last.arg = last.id)
       /\ IsCall(last, "can_create_employees") => (last.flag <=> last.id < 1)

(* level 0 was asked whether it may create employees, and it may *)
Witness_C18 ==
    /\ IsCall(last, "can_create_employees")
    /\ last.id = 0
    /\ last.flag

(* ======================================================================= *)
(* Claims about the date range presets, checked under SpecDates            *)
(* ======================================================================= *)
(* the days from 2001-01-01, a Monday, to the date *)
DaysSinceAMonday(d) == ToOrdinal(d) - ToOrdinal(Date(2001, 1, 1))

(* C19: Last Month starts on day 1 of the calendar month before today's,   *)
(* in the year before when today is in January, and ends on the last day   *)
(* of that month: day 28 to 31, the day before day 1 of today's month.     *)
Thm_C19 ==
    ( IsCall(last, "view_branch_employee_reports") /\ last.id = "Last Month" )
    => LET today == last.arg
           start_date == last.start_date
           end_date == last.end_date
       IN
       /\ start_date.day = 1
       /\ IF today.month = 1
          THEN start_date.month = 12 /\ start_date.year = today.year - 1
          ELSE start_date.month = today.month - 1 /\ start_date.year = today.year
       /\ end_date.year = start_date.year
       /\ end_date.month = start_date.month
       /\ end_date.day \in 28..31
       /\ ToOrdinal(end_date) + 1 = ToOrdinal(Date(today.year, today.month, 1))

(* Last Month was computed in a January: it is the December of the year   *)
(* before                                                                  *)
Witness_C19 ==
    /\ IsCall(last, "view_branch_employee_reports")
    /\ last.id = "Last Month"
    /\ last.arg.month = 1
    /\ last.start_date = Date(last.arg.year - 1, 12, 1)
    /\ last.end_date = Date(last.arg.year - 1, 12, 31)

(* C20: This Week ends today and starts on the Monday of today's week: the *)
(* start is a Monday, not after today and at most 6 days before it.        *)
Thm_C20 ==
    ( /\ \/ IsCall(last, "get_date_range_from_filter")
         \/ IsCall(last, "view_branch_employee_reports")
      /\ last.id = "This Week" )
    => /\ last.end_date = last.arg
       /\ DaysSinceAMonday(last.start_date) % 7 = 0
       /\ ToOrdinal(last.start_date) <= ToOrdinal(last.arg)
       /\ ToOrdinal(last.arg) - ToOrdinal(last.start_date) <= 6

(* This Week was computed on a Sunday whose Monday is in the month before *)
Witness_C20 ==
    /\ IsCall(last, "get_date_range_from_filter")
    /\ last.id = "This Week"
    /\ ToOrdinal(last.arg) - ToOrdinal(last.start_date) = 6
    /\ last.start_date.month # last.arg.month

(* ======================================================================= *)
(* Claims about the role seed, checked under SpecSeed                      *)
(* ======================================================================= *)
(* the company has a role of this name and level *)
HasRole(ro, company_id, role_name, role_level) ==
    \E r \in DOMAIN ro :
        ro[r] = [role_name |-> role_name, role_level |-> role_level,
                 company_id |-> company_id]

Cex_C22 ==
    IsCall(last, "get_branch_task_progress")
    => IF last.id \in RowsOf(tasks) /\ tasks[last.id].branch_id # NULL
       THEN /\ last.flag
            /\ last.total = Cardinality(AssignmentsOf(task_assignments, last.id))
            /\ last.completed =
                  SqlValue(Cardinality({k \in AssignmentsOf(task_assignments, last.id) :
                                          task_assignments[k].is_completed}))
       ELSE ~last.flag

(* ======================================================================= *)
(* Claims about the rows of tasks and task_assignments, checked under      *)
(* SpecTask                                                                *)
(* ======================================================================= *)
(* C23: every task_assignments row belongs to a task that exists and has a *)
(* branch target and no employee target, and there is one row at most for  *)
(* a task and an employee: the rows create_task inserts are one for each   *)
(* active employee of the branch, under a task key no row had before.      *)
Thm_C23 ==
    [][ /\ \A k \in DOMAIN task_assignments' :
              /\ k[1] \in RowsOf(tasks')
              /\ tasks'[k[1]].branch_id # NULL
              /\ tasks'[k[1]].employee_id = NULL
        /\ IsCall(last', "create_task")
           => /\ last'.id \notin RowsOf(tasks)
              /\ AssignmentsOf(task_assignments, last'.id) = {}
              /\ Cardinality(AssignmentsOf(task_assignments', last'.id))
                    = Cardinality({k[2] : k \in AssignmentsOf(task_assignments', last'.id)})
              /\ \A k \in DOMAIN task_assignments :
                    k \in DOMAIN task_assignments'
      ]_vars

(* a task was deleted with its rows; the rows of the other task, one of    *)
(* them complete, are still there                                          *)
Witness_C23 ==
    /\ IsCall(last, "delete_task")
    /\ last.id \notin RowsOf(tasks)
    /\ task_seq = 2
    /\ \E k \in DOMAIN task_assignments :
          /\ k[1] # last.id
          /\ task_assignments[k].is_completed

(* ======================================================================= *)
(* Claims about the branch tree, checked under SpecBranch                  *)
(* ======================================================================= *)
(* the parents of the branches of S *)
ParentsOf(br, S) == {br[x].parent_branch_id : x \in S} \cap DOMAIN br

(* the branches reached from S in 1 to n steps along parent_branch_id *)
RECURSIVE AncestorsWithin(_, _, _)
AncestorsWithin(br, S, n) ==
    IF n = 0 THEN {}
    ELSE ParentsOf(br, S) \cup AncestorsWithin(br, ParentsOf(br, S), n - 1)

(* C24 as stated: no branch is its own ancestor: following                 *)
(* parent_branch_id from a branch never leads back to it, in one step or   *)
(* in more                                                                 *)
Cex_C24 ==
    \A b \in RowsOf(branches) :
        b \notin AncestorsWithin(branches, {b}, Cardinality(RowsOf(branches)))

(* C25: a task is complete if and only if its completed_by_id and its      *)
(* completed_at are both set.                                              *)
Thm_C25 ==
    \A t \in RowsOf(tasks) :
        tasks[t].is_completed
        <=> (tasks[t].completed_by_id # NULL /\ tasks[t].completed_at # NULL)

(* a complete task was reopened: it is open and names no one; the other    *)
(* task is complete                                                        *)
Witness_C25 ==
    /\ IsCall(last, "reopen_task")
    /\ last.flag
    /\ last.id \in RowsOf(tasks)
    /\ ~tasks[last.id].is_completed
    /\ tasks[last.id].completed_by_id = NULL
    /\ \E t \in RowsOf(tasks) : tasks[t].is_completed

(* C26: a branch task that has an assignment and none that is incomplete   *)
(* is complete.                                                            *)
Thm_C26 ==
    \A t \in RowsOf(tasks) :
        ( /\ tasks[t].branch_id # NULL
          /\ AssignmentsOf(task_assignments, t) # {}
          /\ \A k \in AssignmentsOf(task_assignments, t) :
                task_assignments[k].is_completed )
        => tasks[t].is_completed

(* one branch task is complete with every assignment complete, the last of *)
(* them that of a General Employee who closed it; another is complete, by  *)
(* the override, with an assignment that is not                            *)
Witness_C26 ==
    /\ \E t \in RowsOf(tasks) :
          /\ tasks[t].branch_id # NULL
          /\ tasks[t].is_completed
          /\ AssignmentsOf(task_assignments, t) # {}
          /\ \A k \in AssignmentsOf(task_assignments, t) :
                task_assignments[k].is_completed
          /\ EmployeeRoleLevel(tasks[t].completed_by_id) = GENERAL_EMPLOYEE
    /\ \E t \in RowsOf(tasks) :
          /\ tasks[t].is_completed
          /\ \E k \in AssignmentsOf(task_assignments, t) :
                ~task_assignments[k].is_completed

(* C27: mark_task_completed(task, actor) changes at most the row of the    *)
(* task and the assignment row of the task and the actor: every other      *)
(* task, every other assignment row and every other table are as before,   *)
(* and no row is added or removed.                                         *)
Thm_C27 ==
    [][ IsCall(last', "mark_task_completed")
        => /\ DOMAIN tasks' = DOMAIN tasks
           /\ \A t \in RowsOf(tasks) : t # last'.id => tasks'[t] = tasks[t]
           /\ DOMAIN task_assignments' = DOMAIN task_assignments
           /\ \A k \in DOMAIN task_assignments :
                 k # <<last'.id, last'.arg>>
                 => task_assignments'[k] = task_assignments[k]
           /\ UNCHANGED <<companies, branches, employee_roles, employees,
                          messages, role_seq, task_seq>>
      ]_vars

(* an Asst. Manager closed a branch task: the assignment of a colleague is *)
(* still incomplete, and the other task is open with a complete assignment *)
Witness_C27 ==
    /\ IsCall(last, "mark_task_completed")
    /\ last.flag
    /\ last.id \in RowsOf(tasks)
    /\ tasks[last.id].completed_by_id = last.arg
    /\ EmployeeRoleLevel(last.arg) = ASST_MANAGER
    /\ <<last.id, last.arg>> \in DOMAIN task_assignments
    /\ \E k \in AssignmentsOf(task_assignments, last.id) :
          k[2] # last.arg /\ ~task_assignments[k].is_completed
    /\ \E t \in RowsOf(tasks) :
          /\ t # last.id
          /\ ~tasks[t].is_completed
          /\ \E k \in AssignmentsOf(task_assignments, t) :
                task_assignments[k].is_completed

(* C28: a call of mark_task_completed on an open branch task by an         *)
(* employee of role level 2 or less who holds no assignment of the task    *)
(* updates no assignment row, sets the task complete with completed_by_id  *)
(* the caller, and returns true.                                           *)
Thm_C28 ==
    [][ ( /\ IsCall(last', "mark_task_completed")
          /\ last'.id \in RowsOf(tasks)
          /\ ~tasks[last'.id].is_completed
          /\ tasks[last'.id].branch_id # NULL
          /\ HasRoleRow(last'.arg)
          /\ EmployeeRoleLevel(last'.arg) <= 2
          /\ <<last'.id, last'.arg>> \notin DOMAIN task_assignments )
        => /\ task_assignments' = task_assignments
           /\ tasks'[last'.id].is_completed
           /\ tasks'[last'.id].completed_by_id = last'.arg
           /\ last'.flag
      ]_vars

(* an Asst. Manager of another branch, who holds no assignment of the      *)
(* task, closed it while an assignee had not completed his assignment      *)
Witness_C28 ==
    /\ IsCall(last, "mark_task_completed")
    /\ last.flag
    /\ last.id \in RowsOf(tasks)
    /\ tasks[last.id].branch_id # NULL
    /\ tasks[last.id].completed_by_id = last.arg
    /\ EmployeeRoleLevel(last.arg) = ASST_MANAGER
    /\ employees[last.arg].branch_id # tasks[last.id].branch_id
    /\ <<last.id, last.arg>> \notin DOMAIN task_assignments
    /\ \E k \in AssignmentsOf(task_assignments, last.id) :
          ~task_assignments[k].is_completed

(* ======================================================================= *)
(* Claims about reactivation, checked under SpecStatus                     *)
(* ======================================================================= *)
(* C29: update_company_status(c, True) leaves company c, every branch of c *)
(* and every employee of those branches active, whatever their flags were  *)
(* before the call: also those of a branch or an employee that was         *)
(* inactive while the company was active.                                  *)
Thm_C29 ==
    [][ ( IsCall(last', "update_company_status") /\ last'.flag = TRUE )
        => LET c == last'.id IN
           /\ companies'[c].is_active
           /\ \A b \in RowsOf(branches') :
                 branches'[b].company_id = c => branches'[b].is_active
           /\ \A e \in RowsOf(employees') :
                 branches'[employees'[e].branch_id].company_id = c
                 => employees'[e].is_active
      ]_vars

(* a company with two branches and an employee in each was reactivated:    *)
(* all are active                                                          *)
Witness_C29 ==
    /\ IsCall(last, "update_company_status")
    /\ last.flag = TRUE
    /\ companies[last.id].is_active
    /\ Cardinality(BranchesOfCompany(branches, last.id)) = 2
    /\ \A b \in BranchesOfCompany(branches, last.id) :
          /\ branches[b].is_active
          /\ \E e \in RowsOf(employees) :
                employees[e].branch_id = b /\ employees[e].is_active

(* ======================================================================= *)
(* Claims about the Assign Task form, checked under SpecForms              *)
(* ======================================================================= *)
(* C30 as stated: every employee the form offers an actor of level 1 or 2  *)
(* satisfies can_assign_tasks_to(level of the actor, level of the          *)
(* employee).                                                              *)
Cex_C30 ==
    \A a \in RowsOf(employees) :
        ( HasRoleRow(a) /\ EmployeeRoleLevel(a) \in {MANAGER, ASST_MANAGER} )
        => \A e \in AssignableEmployees(a) :
              can_assign_tasks_to(EmployeeRoleLevel(a), EmployeeRoleLevel(e))

====
